---------------------------- MODULE Spec2Model ----------------------------
(***************************************************************************)
(* Credential resolution, connection set-up, report builder and command    *)
(* of os_info.py.                                                          *)
(*                                                                         *)
(* Strings are sequences of one-character strings, so that the string      *)
(* operations of the code (truthiness, str.strip, configparser's value     *)
(* interpolation) are computed and not assumed.  A credential record (a    *)
(* Python dict) is a function from a subset of Keys to strings.            *)
(***************************************************************************)
EXTENDS Integers, Sequences, FiniteSets, TLC

VARIABLES
    pc,              \* position in the function under analysis
    sdk_available,   \* OPENSTACK_AVAILABLE
    auth_method,     \* setup_openstack_connection(auth_method=...)
    config_file,     \* setup_openstack_connection(config_file=...)
    environ,         \* os.environ restricted to the eight OS_* variables
    file,            \* the configuration file last handed to configparser
    file_config,     \* what load_config_file returned for it
    prompt,          \* number of the next interactive prompt
    answer,          \* what the user typed at the last prompt
    auth_config,     \* the credential record being built / resolved
    obtained,        \* auth_config as resolved, before the defaults are set
    path_idx,        \* index into default_config_paths
    is_valid,        \* validate_auth_config(...)[0]
    missing_fields,  \* validate_auth_config(...)[1]
    calls,           \* external interactions so far, in order
    connect_args,    \* keyword arguments handed to openstack.connect
    result,          \* how the function ended
    args,            \* the namespace parse_arguments returned
    exit_status,     \* the status the process exits with
    instance_filename,   \* get_openstack_info_and_export_csv(instance_filename=...)
    hypervisor_filename, \* get_openstack_info_and_export_csv(hypervisor_filename=...)
    conn,            \* get_openstack_info_and_export_csv(conn=...)
    export_instances,   \* get_openstack_info_and_export_csv(export_instances=...)
    export_hypervisors, \* get_openstack_info_and_export_csv(export_hypervisors=...)
    cloud,           \* what the control plane holds and how it answers
    all_servers,     \* list(conn.compute.servers(...))
    instance_data,   \* the instance rows built so far
    hypervisor_data, \* the hypervisor rows built so far
    out_files        \* the two output files

vars == <<pc, sdk_available, auth_method, config_file, environ, file,
          file_config, prompt, answer, auth_config, obtained, path_idx,
          is_valid, missing_fields, calls, connect_args, result,
          args, exit_status, instance_filename, hypervisor_filename, conn,
          export_instances, export_hypervisors, cloud, all_servers, instance_data, hypervisor_data, out_files>>

\* the state of the command line and of the report builder
reportVars == <<args, exit_status, instance_filename, hypervisor_filename,
                conn, export_instances, export_hypervisors, cloud,
                all_servers, instance_data, hypervisor_data, out_files>>

-----------------------------------------------------------------------------
(* Bounds *)

\* longest string typed, exported or written in a file
MaxLen == 1

\* most option lines in a configuration file
MaxOptions == 2

-----------------------------------------------------------------------------
(* Strings *)

RECURSIVE Strs(_, _)
\* all strings over alphabet of length at most n
Strs(alphabet, n) ==
    IF n = 0 THEN {<<>>}
    ELSE LET shorter == Strs(alphabet, n - 1)
         IN  shorter \cup {Append(s, c) : s \in shorter, c \in alphabet}

EmptyStr == <<>>

\* Python truthiness of a str
Truthy(s) == s # EmptyStr

RECURSIVE LStrip(_)
LStrip(s) == IF s # <<>> /\ Head(s) = " " THEN LStrip(Tail(s)) ELSE s

RECURSIVE RStrip(_)
RStrip(s) ==
    IF s # <<>> /\ s[Len(s)] = " " THEN RStrip(SubSeq(s, 1, Len(s) - 1)) ELSE s

\* str.strip()
Strip(s) == RStrip(LStrip(s))

-----------------------------------------------------------------------------
(* Credential records *)

required_fields == <<"auth_url", "username", "password", "project_name">>

RequiredKeys == {"auth_url", "username", "password", "project_name"}

OptionalKeys ==
    {"user_domain_name", "project_domain_name", "region_name", "interface"}

Keys == RequiredKeys \cup OptionalKeys

\* the empty dict
EmptyConfig == [k \in {} |-> EmptyStr]

\* d[key] = value on a dict
DictSet(d, key, value) ==
    [k \in DOMAIN d \cup {key} |-> IF k = key THEN value ELSE d[k]]

\* d[key] = value where d.setdefault(key, value) is meant
SetDefaultMut(d, key, value) == DictSet(d, key, value)

\* d.setdefault(key, value)
SetDefault(d, key, value) ==
    IF key \in DOMAIN d THEN d ELSE DictSet(d, key, value)

DEFAULT_DOMAIN == <<"d", "e", "f", "a", "u", "l", "t">>

DEFAULT_INTERFACE == <<"p", "u", "b", "l", "i", "c">>

\* validate_auth_config with "field not in auth_config" for the test
ValidateAuthConfigMut(cfg) ==
    LET missing == SelectSeq(required_fields, LAMBDA f : f \notin DOMAIN cfg)
    IN  [is_valid |-> Len(missing) = 0, missing_fields |-> missing]

\* validate_auth_config: not auth_config.get(field)
ValidateAuthConfig(cfg) ==
    LET missing ==
            SelectSeq(required_fields,
                      LAMBDA f : ~(f \in DOMAIN cfg /\ Truthy(cfg[f])))
    IN  [is_valid |-> Len(missing) = 0, missing_fields |-> missing]

-----------------------------------------------------------------------------
(* get_auth_from_environment *)

env_mapping ==
    [OS_AUTH_URL |-> "auth_url",
     OS_USERNAME |-> "username",
     OS_PASSWORD |-> "password",
     OS_PROJECT_NAME |-> "project_name",
     OS_USER_DOMAIN_NAME |-> "user_domain_name",
     OS_PROJECT_DOMAIN_NAME |-> "project_domain_name",
     OS_REGION_NAME |-> "region_name",
     OS_INTERFACE |-> "interface"]

EnvVars == DOMAIN env_mapping

\* the variable that maps to a credential key
EnvVarOf(key) == CHOOSE v \in EnvVars : env_mapping[v] = key

\* an environment: the variables that are set, with their values
\* (os.environ.get gives None for the others)
GetAuthFromEnvironmentMut(env) ==
    [k \in {env_mapping[v] : v \in DOMAIN env} |-> env[EnvVarOf(k)]]

\* get_auth_from_environment: keeps a variable when "if value:" passes
GetAuthFromEnvironment(env) ==
    [k \in {env_mapping[v] : v \in {w \in DOMAIN env : Truthy(env[w])}}
        |-> env[EnvVarOf(k)]]

-----------------------------------------------------------------------------
(* load_config_file *)

\* configparser.BasicInterpolation on one value: "%%" gives "%", any other
\* use of "%" is an InterpolationSyntaxError (the alphabet has no "(")
RECURSIVE Interpolate(_)
Interpolate(raw) ==
    IF raw = <<>> THEN [ok |-> TRUE, value |-> <<>>]
    ELSE IF Head(raw) # "%"
         THEN LET rest == Interpolate(Tail(raw))
              IN  [ok |-> rest.ok, value |-> <<Head(raw)>> \o rest.value]
    ELSE IF Len(raw) >= 2 /\ raw[2] = "%"
         THEN LET rest == Interpolate(SubSeq(raw, 3, Len(raw)))
              IN  [ok |-> rest.ok, value |-> <<"%">> \o rest.value]
    ELSE [ok |-> FALSE, value |-> <<>>]

\* the keys of config_mapping (each maps to itself)
config_mapping == Keys

\* load_config_file returned None
NoneConfig == [none |-> TRUE, config |-> EmptyConfig]

\* a file as configparser sees it: whether the path exists, whether
\* config.read accepts it, whether it has an [openstack] section, the
\* options of that section and those of [DEFAULT], which every section
\* inherits
MissingFile ==
    [exists |-> FALSE, parses |-> FALSE, has_section |-> FALSE,
     section |-> EmptyConfig, defaults |-> EmptyConfig]

\* "config_key in section" and section[config_key] of a SectionProxy
SectionHas(f, key) == key \in DOMAIN f.section \cup DOMAIN f.defaults

SectionRaw(f, key) ==
    IF key \in DOMAIN f.section THEN f.section[key] ELSE f.defaults[key]

\* load_config_file
LoadConfigFile(f) ==
    IF ~f.exists \/ ~f.parses \/ ~f.has_section
    THEN NoneConfig
    ELSE LET present == {k \in config_mapping : SectionHas(f, k)}
         IN  IF \E k \in present : ~Interpolate(SectionRaw(f, k)).ok
             THEN NoneConfig
             ELSE [none |-> FALSE,
                   config |-> [k \in present |->
                                  Interpolate(SectionRaw(f, k)).value]]

-----------------------------------------------------------------------------
(* get_auth_interactive *)

\* the prompts in the order they are made, by the key each one fills
prompt_keys ==
    <<"auth_url", "username", "password", "project_name",
      "user_domain_name", "project_domain_name", "region_name", "interface">>

\* one prompt that stores the raw input() instead of the stripped one
PromptMut(cfg, i, typed) ==
    LET key == prompt_keys[i]
    IN  CASE key \in {"user_domain_name", "project_domain_name"} ->
                DictSet(cfg, key, IF Truthy(typed) THEN typed ELSE DEFAULT_DOMAIN)
          [] key = "interface" ->
                DictSet(cfg, key, IF Truthy(typed) THEN typed ELSE DEFAULT_INTERFACE)
          [] key = "region_name" ->
                IF Truthy(typed) THEN DictSet(cfg, key, typed) ELSE cfg
          [] OTHER -> DictSet(cfg, key, typed)

\* one prompt of get_auth_interactive: what it does to auth_config given
\* what the user typed
Prompt(cfg, i, typed) ==
    LET key == prompt_keys[i]
        stripped == Strip(typed)
    IN  CASE key = "password" -> DictSet(cfg, key, typed)
          [] key \in {"auth_url", "username", "project_name"} ->
                DictSet(cfg, key, stripped)
          [] key \in {"user_domain_name", "project_domain_name"} ->
                DictSet(cfg, key,
                        IF Truthy(stripped) THEN stripped ELSE DEFAULT_DOMAIN)
          [] key = "region_name" ->
                IF Truthy(stripped) THEN DictSet(cfg, key, stripped) ELSE cfg
          [] key = "interface" ->
                DictSet(cfg, key,
                        IF Truthy(stripped) THEN stripped ELSE DEFAULT_INTERFACE)

RECURSIVE AskFrom(_, _, _)
AskFrom(cfg, i, typed) ==
    IF i > Len(prompt_keys) THEN cfg
    ELSE AskFrom(Prompt(cfg, i, typed[i]), i + 1, typed)

\* get_auth_interactive, given everything the user types
GetAuthInteractive(typed) == AskFrom(EmptyConfig, 1, typed)

-----------------------------------------------------------------------------
(* Values of the variables a function under analysis does not use *)

NoResult == [kind |-> "none", message |-> "", fields |-> <<>>]

EmptyEnviron == [v \in {} |-> EmptyStr]

\* the command line and the report builder before they are entered: no
\* namespace, no exit, the default file names, no connection, both passes
\* enabled, an empty control plane, nothing fetched, built or written
NoArgs == [auth_method |-> "none"]

NoCloud == [servers |-> <<>>, hypervisors |-> <<>>, hypervisors_type |-> "list"]

NoFiles == [name \in {} |-> <<>>]

ReportIdle ==
    /\ args = NoArgs
    /\ exit_status = "running"
    /\ instance_filename = "openstack_instances.csv"
    /\ hypervisor_filename = "openstack_hypervisors.csv"
    /\ conn = "None"
    /\ export_instances = TRUE
    /\ export_hypervisors = TRUE
    /\ cloud = NoCloud
    /\ all_servers = <<>>
    /\ instance_data = <<>>
    /\ hypervisor_data = <<>>
    /\ out_files = NoFiles

\* every partial function from keys to values
PartialMaps(keys, values) == UNION {[S -> values] : S \in SUBSET keys}

-----------------------------------------------------------------------------
(* validate_auth_config on its own *)

\* records handed to validate_auth_config: a required key is absent or any
\* string of letters and blanks, an optional key is absent or set
ValidateInputs ==
    {r @@ o : r \in PartialMaps(RequiredKeys, Strs({"a", " "}, MaxLen)),
              o \in PartialMaps(OptionalKeys, {<<"a">>})}

InitValidate ==
    \E cfg \in ValidateInputs :
        /\ pc = "validate"
        /\ auth_config = cfg
        /\ sdk_available = TRUE /\ auth_method = "none" /\ config_file = "None"
        /\ environ = EmptyEnviron /\ file = MissingFile
        /\ file_config = NoneConfig /\ prompt = 0 /\ answer = EmptyStr
        /\ obtained = EmptyConfig /\ path_idx = 0 /\ is_valid = FALSE
        /\ missing_fields = <<>> /\ calls = <<>>
        /\ connect_args = EmptyConfig /\ result = NoResult
        /\ ReportIdle

Validate ==
    /\ pc = "validate"
    /\ is_valid' = ValidateAuthConfig(auth_config).is_valid
    /\ missing_fields' = ValidateAuthConfig(auth_config).missing_fields
    /\ pc' = "validated"
    /\ UNCHANGED reportVars
    /\ UNCHANGED <<sdk_available, auth_method, config_file, environ, file,
                   file_config, prompt, answer, auth_config, obtained,
                   path_idx, calls, connect_args, result>>

SpecValidate == InitValidate /\ [][Validate]_vars

-----------------------------------------------------------------------------
(* get_auth_from_environment on its own *)

\* environments: each OS_* variable is unset or set to a string, which may
\* be the empty one
Environments == PartialMaps(EnvVars, Strs({"e"}, MaxLen))

InitEnvironment ==
    \E env \in Environments :
        /\ pc = "environment"
        /\ environ = env
        /\ sdk_available = TRUE /\ auth_method = "none" /\ config_file = "None"
        /\ file = MissingFile /\ file_config = NoneConfig
        /\ prompt = 0 /\ answer = EmptyStr /\ auth_config = EmptyConfig
        /\ obtained = EmptyConfig /\ path_idx = 0 /\ is_valid = FALSE
        /\ missing_fields = <<>> /\ calls = <<>>
        /\ connect_args = EmptyConfig /\ result = NoResult
        /\ ReportIdle

ReadEnvironment ==
    /\ pc = "environment"
    /\ auth_config' = GetAuthFromEnvironment(environ)
    /\ pc' = "environment_read"
    /\ UNCHANGED reportVars
    /\ UNCHANGED <<sdk_available, auth_method, config_file, environ, file,
                   file_config, prompt, answer, obtained, path_idx, is_valid,
                   missing_fields, calls, connect_args, result>>

SpecEnvironment == InitEnvironment /\ [][ReadEnvironment]_vars

-----------------------------------------------------------------------------
(* load_config_file on its own *)

\* option names a file may use: the recognized ones and one that is not
OptionNames == Keys \cup {"foo"}

\* values a file may give an option: letters and percent signs
OptionValues == Strs({"f", "%"}, MaxLen)

\* a file that parses: whether it has an [openstack] section, the options
\* of that section and those of [DEFAULT]
ParsedFile(has, section, defaults) ==
    [exists |-> TRUE, parses |-> TRUE, has_section |-> has,
     section |-> section, defaults |-> defaults]

UnparseableFile ==
    [exists |-> TRUE, parses |-> FALSE, has_section |-> FALSE,
     section |-> EmptyConfig, defaults |-> EmptyConfig]

\* the path does not exist, or holds a file that does not parse, or one
\* with no option yet, with or without an [openstack] section
InitLoad ==
    /\ pc = "write"
    /\ file \in {MissingFile, UnparseableFile,
                 ParsedFile(FALSE, EmptyConfig, EmptyConfig),
                 ParsedFile(TRUE, EmptyConfig, EmptyConfig)}
    /\ sdk_available = TRUE /\ auth_method = "none" /\ config_file = "None"
    /\ environ = EmptyEnviron /\ file_config = NoneConfig
    /\ prompt = 0 /\ answer = EmptyStr /\ auth_config = EmptyConfig
    /\ obtained = EmptyConfig /\ path_idx = 0 /\ is_valid = FALSE
    /\ missing_fields = <<>> /\ calls = <<>>
    /\ connect_args = EmptyConfig /\ result = NoResult
    /\ ReportIdle

\* before load_config_file is called, one more option line is written in
\* the file, under [openstack] or under [DEFAULT]
WriteOption ==
    /\ pc = "write"
    /\ file.parses
    /\ Cardinality(DOMAIN file.section) + Cardinality(DOMAIN file.defaults)
          < MaxOptions
    /\ \E under \in {"openstack", "DEFAULT"}, name \in OptionNames,
          value \in OptionValues :
        IF under = "openstack"
        THEN /\ name \notin DOMAIN file.section
             /\ file' = ParsedFile(TRUE, DictSet(file.section, name, value),
                                   file.defaults)
        ELSE /\ name \notin DOMAIN file.defaults
             /\ file' = ParsedFile(file.has_section, file.section,
                                   DictSet(file.defaults, name, value))
    /\ UNCHANGED reportVars
    /\ UNCHANGED <<pc, sdk_available, auth_method, config_file, environ,
                   file_config, prompt, answer, auth_config, obtained,
                   path_idx, is_valid, missing_fields, calls, connect_args,
                   result>>

Load ==
    /\ pc = "write"
    /\ file_config' = LoadConfigFile(file)
    /\ pc' = "loaded"
    /\ UNCHANGED reportVars
    /\ UNCHANGED <<sdk_available, auth_method, config_file, environ, file,
                   prompt, answer, auth_config, obtained, path_idx, is_valid,
                   missing_fields, calls, connect_args, result>>

NextLoad == WriteOption \/ Load

SpecLoad == InitLoad /\ [][NextLoad]_vars

-----------------------------------------------------------------------------
(* get_auth_interactive on its own, one prompt at a time *)

\* what a user may type at a prompt
Typed == Strs({"a", " "}, MaxLen)

InitInteractive ==
    /\ pc = "prompt"
    /\ prompt = 1
    /\ sdk_available = TRUE /\ auth_method = "none" /\ config_file = "None"
    /\ environ = EmptyEnviron /\ file = MissingFile
    /\ file_config = NoneConfig /\ answer = EmptyStr
    /\ auth_config = EmptyConfig
    /\ obtained = EmptyConfig /\ path_idx = 0 /\ is_valid = FALSE
    /\ missing_fields = <<>> /\ calls = <<>>
    /\ connect_args = EmptyConfig /\ result = NoResult
    /\ ReportIdle

Ask ==
    /\ pc = "prompt"
    /\ \E typed \in Typed :
        /\ answer' = typed
        /\ auth_config' = Prompt(auth_config, prompt, typed)
    /\ prompt' = prompt + 1
    /\ pc' = IF prompt = Len(prompt_keys) THEN "prompted" ELSE "prompt"
    /\ UNCHANGED reportVars
    /\ UNCHANGED <<sdk_available, auth_method, config_file, environ, file,
                   file_config, obtained, path_idx, is_valid, missing_fields,
                   calls, connect_args, result>>

SpecInteractive == InitInteractive /\ [][Ask]_vars

-----------------------------------------------------------------------------
(* setup_openstack_connection *)

default_config_paths ==
    <<"~/.config/openstack/clouds.ini", "~/.openstack/config", "./openstack.conf">>

\* an external interaction: what was done, on which path, and how it went
Call(op, path, ok) == [op |-> op, path |-> path, ok |-> ok]

Raise(kind, message, fields) ==
    [kind |-> kind, message |-> message, fields |-> fields]

\* records a source may hold: a required key is absent, empty or set, an
\* optional key is absent or set; the values name the source
SourceRecords(tag) ==
    {r @@ o : r \in PartialMaps(RequiredKeys, {EmptyStr, <<tag>>}),
              o \in PartialMaps(OptionalKeys, {<<tag>>})}

\* the environments, files, answers and keyword arguments a call of
\* setup_openstack_connection may meet
SetupEnvironments ==
    {[v \in {EnvVarOf(k) : k \in DOMAIN r} |-> r[env_mapping[v]]] :
        r \in SourceRecords("e")}

SetupFiles ==
    {MissingFile, UnparseableFile,
     ParsedFile(FALSE, EmptyConfig, EmptyConfig),
     ParsedFile(TRUE, [password |-> <<"%">>], EmptyConfig)}
    \cup {ParsedFile(TRUE, r, EmptyConfig) : r \in SourceRecords("f")}

SetupAnswers == [1..Len(prompt_keys) -> {EmptyStr, <<"a">>}]

SetupArguments ==
    {r @@ o : r \in PartialMaps(RequiredKeys, {EmptyStr, <<"k">>}),
              o \in PartialMaps(OptionalKeys, {EmptyStr, <<"k">>})}

AuthMethods == {"auto", "env", "config", "interactive", "args"}

\* the three defaults assigned with d[key] = value
ApplyDefaultsMut(cfg) ==
    SetDefaultMut(
        SetDefaultMut(
            SetDefaultMut(cfg, "user_domain_name", DEFAULT_DOMAIN),
            "project_domain_name", DEFAULT_DOMAIN),
        "interface", DEFAULT_INTERFACE)

\* the three setdefault calls
ApplyDefaults(cfg) ==
    SetDefault(
        SetDefault(
            SetDefault(cfg, "user_domain_name", DEFAULT_DOMAIN),
            "project_domain_name", DEFAULT_DOMAIN),
        "interface", DEFAULT_INTERFACE)

\* the same test without the validation
FileAcceptedMut(loaded) == ~loaded.none /\ loaded.config # EmptyConfig

\* "if file_config and validate_auth_config(file_config)[0]"
FileAccepted(loaded) ==
    /\ ~loaded.none
    /\ loaded.config # EmptyConfig
    /\ ValidateAuthConfig(loaded.config).is_valid

\* the same test written "if auth_config == {}"
LoadFailedMut(loaded) == ~loaded.none /\ loaded.config = EmptyConfig

\* "if not auth_config" after load_config_file: None and the empty dict
\* are both falsy
LoadFailed(loaded) == loaded.none \/ loaded.config = EmptyConfig

\* what the sources can give: the records get_auth_from_environment finds,
\* the results of load_config_file, the records get_auth_interactive builds
EnvironmentRecords == {GetAuthFromEnvironment(env) : env \in SetupEnvironments}

LoadResults == {LoadConfigFile(f) : f \in SetupFiles}

InteractiveRecords == {GetAuthInteractive(typed) : typed \in SetupAnswers}

\* what one turn of the loop over default_config_paths can meet: whether
\* os.path.exists(config_path), whether load_config_file returns a record
\* with every required field, whether the code accepts what it returns,
\* and the record that is then taken
PathOutcomes ==
    {[exists |-> f.exists,
      complete |-> /\ f.exists
                   /\ ~LoadConfigFile(f).none
                   /\ \A k \in RequiredKeys :
                         /\ k \in DOMAIN LoadConfigFile(f).config
                         /\ LoadConfigFile(f).config[k] # EmptyStr,
      accepted |-> f.exists /\ FileAccepted(LoadConfigFile(f)),
      config |-> IF f.exists /\ FileAccepted(LoadConfigFile(f))
                 THEN LoadConfigFile(f).config ELSE EmptyConfig] :
        f \in SetupFiles}

Init ==
    /\ pc = "start"
    /\ sdk_available \in BOOLEAN
    /\ auth_method \in AuthMethods \cup {"other"}
    /\ config_file \in IF auth_method = "config"
                       THEN {"None", "", "custom.conf"} ELSE {"None"}
    /\ environ = EmptyEnviron
    /\ file = MissingFile
    /\ file_config = NoneConfig
    /\ prompt = 0
    /\ answer = EmptyStr
    /\ auth_config = EmptyConfig
    /\ obtained = EmptyConfig
    /\ path_idx = 0
    /\ is_valid = FALSE
    /\ missing_fields = <<>>
    /\ calls = <<>>
    /\ connect_args = EmptyConfig
    /\ result = NoResult
    /\ ReportIdle

\* the variables only the functions analysed on their own use
unused == <<sdk_available, auth_method, config_file, environ, file, prompt, answer>>

\* "if not OPENSTACK_AVAILABLE: raise ImportError"
CheckSDK ==
    /\ pc = "start"
    /\ IF sdk_available
       THEN pc' = "resolve" /\ result' = result
       ELSE /\ pc' = "raised"
            /\ result' = Raise("ImportError", "OpenStack SDK is not installed", <<>>)
    /\ UNCHANGED reportVars
    /\ UNCHANGED <<unused, file_config, auth_config, obtained, path_idx,
                   is_valid, missing_fields, calls, connect_args>>

\* auto: the environment first; the files are tried only if it is not valid
ResolveAuto ==
    /\ pc = "resolve" /\ auth_method = "auto"
    /\ \E found \in EnvironmentRecords :
        LET valid == ValidateAuthConfig(found).is_valid
        IN  /\ auth_config' = found
            /\ calls' = Append(calls, Call("environ", "", valid))
            /\ pc' = IF valid THEN "validate" ELSE "auto_files"
            /\ path_idx' = IF valid THEN path_idx ELSE 1
    /\ UNCHANGED reportVars
    /\ UNCHANGED <<unused, file_config, obtained, is_valid, missing_fields,
                   connect_args, result>>

\* the same assignment written "auth_config.update(found)"
AdoptMut(current, found) == found @@ current

\* "auth_config = file_config" and "auth_config = get_auth_interactive()":
\* the name is bound to the record found, what it held before is dropped
Adopt(current, found) == found

\* auto: one turn of the loop over default_config_paths
AutoTryFile ==
    /\ pc = "auto_files"
    /\ \E f \in PathOutcomes :
        LET path == default_config_paths[path_idx]
            accepted == f.accepted
        IN  /\ calls' = calls \o
                  (IF ~f.exists
                   THEN <<Call("exists", path, FALSE)>>
                   ELSE <<Call("exists", path, TRUE), Call("load", path, f.complete)>>
                        \o (IF accepted THEN <<Call("print_using", path, TRUE)>>
                            ELSE <<>>))
            /\ auth_config' = IF accepted THEN Adopt(auth_config, f.config)
                             ELSE auth_config
            /\ path_idx' = IF accepted THEN path_idx ELSE path_idx + 1
            /\ pc' = IF accepted \/ path_idx = Len(default_config_paths)
                     THEN "auto_check" ELSE "auto_files"
    /\ UNCHANGED reportVars
    /\ UNCHANGED <<unused, file_config, obtained, is_valid, missing_fields,
                   connect_args, result>>

\* auto: "if still not valid, try interactive"
AutoFallback ==
    /\ pc = "auto_check"
    /\ IF ValidateAuthConfig(auth_config).is_valid
       THEN UNCHANGED <<auth_config, calls>>
       ELSE \E answered \in InteractiveRecords :
               /\ auth_config' = Adopt(auth_config, answered)
               /\ calls' = calls \o <<Call("print_no_valid", "", TRUE),
                                      Call("interactive", "", TRUE)>>
    /\ pc' = "validate"
    /\ UNCHANGED reportVars
    /\ UNCHANGED <<unused, file_config, obtained, path_idx, is_valid,
                   missing_fields, connect_args, result>>

ResolveEnv ==
    /\ pc = "resolve" /\ auth_method = "env"
    /\ \E found \in EnvironmentRecords :
        /\ auth_config' = found
        /\ calls' = Append(calls,
                           Call("environ", "", ValidateAuthConfig(found).is_valid))
    /\ pc' = "validate"
    /\ UNCHANGED reportVars
    /\ UNCHANGED <<unused, file_config, obtained, path_idx, is_valid,
                   missing_fields, connect_args, result>>

ResolveConfig ==
    /\ pc = "resolve" /\ auth_method = "config"
    /\ IF config_file \in {"None", ""}
       THEN /\ pc' = "raised"
            /\ result' = Raise("ValueError", "Config file path must be provided", <<>>)
            /\ UNCHANGED <<file_config, auth_config, calls>>
       ELSE \E loaded \in LoadResults :
               /\ file_config' = loaded
               /\ auth_config' = loaded.config
               /\ calls' = Append(calls, Call("load", config_file, ~loaded.none))
               /\ IF LoadFailed(loaded)
                  THEN /\ pc' = "raised"
                       /\ result' = Raise("ValueError",
                                          "Failed to load configuration", <<>>)
                  ELSE pc' = "validate" /\ result' = result
    /\ UNCHANGED reportVars
    /\ UNCHANGED <<unused, obtained, path_idx, is_valid, missing_fields,
                   connect_args>>

ResolveInteractive ==
    /\ pc = "resolve" /\ auth_method = "interactive"
    /\ \E answered \in InteractiveRecords : auth_config' = answered
    /\ calls' = Append(calls, Call("interactive", "", TRUE))
    /\ pc' = "validate"
    /\ UNCHANGED reportVars
    /\ UNCHANGED <<unused, file_config, obtained, path_idx, is_valid,
                   missing_fields, connect_args, result>>

ResolveArgs ==
    /\ pc = "resolve" /\ auth_method = "args"
    /\ \E kwargs \in SetupArguments : auth_config' = kwargs
    /\ pc' = "validate"
    /\ UNCHANGED reportVars
    /\ UNCHANGED <<unused, file_config, obtained, path_idx, is_valid,
                   missing_fields, calls, connect_args, result>>

ResolveUnknown ==
    /\ pc = "resolve" /\ auth_method \notin AuthMethods
    /\ pc' = "raised"
    /\ result' = Raise("ValueError", "Unknown authentication method", <<>>)
    /\ UNCHANGED reportVars
    /\ UNCHANGED <<unused, file_config, auth_config, obtained, path_idx,
                   is_valid, missing_fields, calls, connect_args>>

\* the validation of what was resolved, then the defaults
ValidateResolved ==
    /\ pc = "validate"
    /\ is_valid' = ValidateAuthConfig(auth_config).is_valid
    /\ missing_fields' = ValidateAuthConfig(auth_config).missing_fields
    /\ obtained' = auth_config
    /\ IF ValidateAuthConfig(auth_config).is_valid
       THEN /\ auth_config' = ApplyDefaults(auth_config)
            /\ pc' = "connect"
            /\ result' = result
       ELSE /\ auth_config' = auth_config
            /\ pc' = "raised"
            /\ result' = Raise("ValueError",
                               "Missing required authentication fields",
                               ValidateAuthConfig(auth_config).missing_fields)
    /\ UNCHANGED reportVars
    /\ UNCHANGED <<unused, file_config, path_idx, calls, connect_args>>

\* how a call into the SDK may end: it returns, it raises an Exception, or
\* the user interrupts it (KeyboardInterrupt is no Exception)
SdkOutcomes == {"ok", "Exception", "KeyboardInterrupt"}

\* what follows a call into the SDK inside the try block that ended in
\* outcome: "except Exception" prints and raises again
AfterSdkCallMut(op, outcome, next) ==
    /\ calls' = Append(calls, Call(op, "", outcome = "ok"))
    /\ pc' = IF outcome = "KeyboardInterrupt" THEN "raised" ELSE next
    /\ result' = IF outcome = "KeyboardInterrupt"
                 THEN Raise(outcome, op, <<>>)
                 ELSE IF next = "returned" THEN Raise("connection", "", <<>>)
                 ELSE result

AfterSdkCall(op, outcome, next) ==
    /\ calls' = calls \o <<Call(op, "", outcome = "ok")>>
                 \o (IF outcome = "Exception"
                     THEN <<Call("print_error", "", TRUE)>>
                     ELSE IF outcome = "ok" /\ next = "returned"
                     THEN <<Call("print_connected", "", TRUE)>>
                     ELSE <<>>)
    /\ pc' = IF outcome = "ok" THEN next ELSE "raised"
    /\ result' = IF outcome # "ok" THEN Raise(outcome, op, <<>>)
                 ELSE IF next = "returned" THEN Raise("connection", "", <<>>)
                 ELSE result

\* conn = openstack.connect(**auth_config)
Connect ==
    /\ pc = "connect"
    /\ connect_args' = auth_config
    /\ \E outcome \in SdkOutcomes : AfterSdkCall("connect", outcome, "authorize")
    /\ UNCHANGED reportVars
    /\ UNCHANGED <<unused, file_config, auth_config, obtained, path_idx,
                   is_valid, missing_fields>>

\* conn.authorize(), the prints and "return conn"
Authorize ==
    /\ pc = "authorize"
    /\ \E outcome \in SdkOutcomes : AfterSdkCall("authorize", outcome, "returned")
    /\ UNCHANGED reportVars
    /\ UNCHANGED <<unused, file_config, auth_config, obtained, path_idx,
                   is_valid, missing_fields, connect_args>>

Next ==
    \/ CheckSDK
    \/ ResolveAuto
    \/ AutoTryFile
    \/ AutoFallback
    \/ ResolveEnv
    \/ ResolveConfig
    \/ ResolveInteractive
    \/ ResolveArgs
    \/ ResolveUnknown
    \/ ValidateResolved
    \/ Connect
    \/ Authorize

Spec == Init /\ [][Next]_vars

-----------------------------------------------------------------------------
(* get_openstack_info_and_export_csv: the control plane *)

\* most instances the control plane holds
MaxServers == 2

\* largest capacity, usage or allocation figure of a hypervisor
MaxFigure == 2

\* the statuses the hypervisor pass counts as holding resources
ActiveStatuses == {"ACTIVE", "PAUSED", "SUSPENDED"}

Statuses == ActiveStatuses \cup {"SHUTOFF"}

HostNames == {"h1", "h2"}

\* conn.compute.get_flavor(id) when it answers
Flavors ==
    [f1 |-> [name |-> "small", vcpus |-> 1, ram |-> 2, disk |-> 1],
     f2 |-> [name |-> "large", vcpus |-> 2, ram |-> 4, disk |-> 2]]

\* conn.block_storage.get_volume(id) when it answers
Volumes ==
    [v1 |-> [id |-> "v1", name |-> "data", size |-> 1],
     v2 |-> [id |-> "v2", name |-> "logs", size |-> 2]]

\* a server as the control plane lists it; hostname and flavor may be
\* missing ("absent"); every server has a project id and an image; unless
\* said otherwise it has no launch timestamp and no addresses
Server(status, hostname, flavor, attached_volumes) ==
    [status |-> status, hostname |-> hostname, flavor |-> flavor,
     attached_volumes |-> attached_volumes,
     project_id |-> "p1", image |-> "i1",
     launched_at |-> "absent", addresses |-> <<>>]

\* the same server with 'OS-SRV-USG:launched_at' and server.addresses set;
\* the addresses are listed in the order the loops over the networks and
\* over the addresses of a network visit them
Launched(server, launched_at, addresses) ==
    [server EXCEPT !.launched_at = launched_at, !.addresses = addresses]

\* server.id: the servers are numbered as they are listed
ServerId(i) == "s" \o ToString(i)

\* a hypervisor as the control plane lists it
Hypervisor(name, vcpus, vcpus_used, memory_size, memory_used, local_disk_size, local_disk_used) ==
    [name |-> name, vcpus |-> vcpus, vcpus_used |-> vcpus_used,
     memory_size |-> memory_size, memory_used |-> memory_used,
     local_disk_size |-> local_disk_size, local_disk_used |-> local_disk_used]

\* sequences over S of length at most n
SeqsUpTo(S, n) == UNION {[1..k -> S] : k \in 0..n}

\* sequences over S in which nothing occurs twice
DistinctSeqs(S) ==
    {q \in SeqsUpTo(S, Cardinality(S)) :
        \A i, j \in 1..Len(q) : i # j => q[i] # q[j]}

-----------------------------------------------------------------------------
(* get_openstack_info_and_export_csv: the rows *)

RECURSIVE Join(_, _)
\* separator.join(entries), an entry being a sequence of pieces
Join(entries, separator) ==
    IF entries = <<>> THEN <<>>
    ELSE IF Len(entries) = 1 THEN entries[1]
    ELSE entries[1] \o <<separator>> \o Join(Tail(entries), separator)

\* f"ID:{volume_details.id}, Name:{volume_details.name}, Size:{volume_details.size}GB"
VolumeResolved(volume_details) ==
    <<"ID:", volume_details.id, ", Name:", volume_details.name,
      ", Size:", ToString(volume_details.size), "GB">>

\* the same placeholder without the id
VolumeErrorMut(vol_id, e) == <<"Details: Error - ", e>>

\* f"ID:{vol['id']}, Details: Error - {e}"
VolumeError(vol_id, e) == <<"ID:", vol_id, ", Details: Error - ", e>>

\* server.to_dict().get('OS-EXT-SRV-ATTR:hypervisor_hostname', default)
HostnameOr(server, default) ==
    IF server.hostname = "absent" THEN default ELSE server.hostname

RECURSIVE Split(_, _)
\* str.split(separator): the pieces between the occurrences of the separator
Split(s, separator) ==
    IF \A k \in 1..Len(s) : s[k] # separator
    THEN <<s>>
    ELSE LET k == CHOOSE k \in 1..Len(s) :
                      /\ s[k] = separator
                      /\ \A j \in 1..(k - 1) : s[j] # separator
         IN  <<SubSeq(s, 1, k - 1)>>
                 \o Split(SubSeq(s, k + 1, Len(s)), separator)

\* "piece in s", the text being cut into the pieces the test can tell apart
Contains(s, piece) == \E k \in 1..Len(s) : s[k] = piece

\* f"{network_name}:{address['addr']} ({address['OS-EXT-IPS:type']})"
NetworkEntry(address) ==
    address.network \o <<":">> \o address.addr \o <<" ", "(">>
        \o address.type \o <<")">>

\* network_ips after the loops over server.addresses
NetworkIps(addresses) ==
    [k \in 1..Len(addresses) |-> NetworkEntry(addresses[k])]

\* "network_ips[0].split(':')[1].split('(')[0].strip() if network_ips and
\* 'floating' in network_ips[0] else 'N/A'"
PublicIp(network_ips) ==
    IF network_ips # <<>> /\ Contains(network_ips[1], "floating")
    THEN Strip(Split(Split(network_ips[1], ":")[2], "(")[1])
    ELSE <<"N/A">>

\* launched_at_iso.replace('Z', '+00:00')
ReplaceZ(launched_at_iso) ==
    IF launched_at_iso = "2023-01-01T12:00:00Z"
    THEN "2023-01-01T12:00:00+00:00"
    ELSE launched_at_iso

\* datetime.fromisoformat(text): a datetime with an offset ("aware"), one
\* without ("naive"), or ValueError
FromIsoFormat(text) ==
    CASE text = "2023-01-01T12:00:00+00:00" -> "aware"
      [] text = "2023-01-01T12:00:00.000000" -> "naive"
      [] OTHER -> "ValueError"

\* the same test with the statuses the hypervisor pass counts
ComputesUptimeMut(server) ==
    /\ server.status \in ActiveStatuses
    /\ server.launched_at # "absent"
    /\ server.launched_at # ""

\* "server.status == "ACTIVE" and 'OS-SRV-USG:launched_at' in server" and
\* "if launched_at_iso:"
ComputesUptime(server) ==
    /\ server.status = "ACTIVE"
    /\ server.launched_at # "absent"
    /\ server.launched_at # ""

\* what the computation of the uptime raises: fromisoformat its ValueError,
\* the subtraction of a naive datetime from datetime.now(timezone.utc) a
\* TypeError
UptimeRaises(server) ==
    ComputesUptime(server)
        /\ FromIsoFormat(ReplaceZ(server.launched_at)) # "aware"

\* uptime_seconds: None, or the seconds since the launch
UptimeSeconds(server) ==
    IF ComputesUptime(server) THEN "seconds" ELSE "None"

\* the instance row; flavor is "None" or a flavor, volumes_info the entries
\* of the attached volumes
InstanceDetails(i, server, flavor, volumes_info) ==
    [ID |-> ServerId(i),
     Status |-> server.status,
     Project_Name |-> "project",
     Hypervisor_Hostname |-> HostnameOr(server, "N/A"),
     Image_Name |-> "image",
     Flavor_Name |-> IF flavor = "None" THEN "N/A" ELSE Flavors[flavor].name,
     VCPUs |-> IF flavor = "None" THEN "N/A" ELSE ToString(Flavors[flavor].vcpus),
     RAM_MB |-> IF flavor = "None" THEN "N/A" ELSE ToString(Flavors[flavor].ram),
     Disk_GB |-> IF flavor = "None" THEN "N/A" ELSE ToString(Flavors[flavor].disk),
     Uptime |-> UptimeSeconds(server),
     Public_IP |-> PublicIp(NetworkIps(server.addresses)),
     Network_IPs |-> Join(NetworkIps(server.addresses), "; "),
     Attached_Volumes |-> Join(volumes_info, "; ")]

\* the same quotient written "a / max(b, 1)"
QuotientMut(a, b) ==
    IF b > 0 THEN [num |-> a, den |-> b] ELSE [num |-> a, den |-> 1]

\* a quotient "(a / b) if b > 0 else 0", kept exact
Quotient(a, b) ==
    IF b > 0 THEN [num |-> a, den |-> b] ELSE [num |-> 0, den |-> 1]

\* q * 100
Times100(q) == [num |-> q.num * 100, den |-> q.den]

\* round(q, 2), in hundredths; a tie goes to the even neighbour
Round2(q) ==
    LET n == q.num * 100
        whole == n \div q.den
        rest == n % q.den
    IN  IF 2 * rest > q.den \/ (2 * rest = q.den /\ whole % 2 = 1)
        THEN whole + 1 ELSE whole

\* the same test written ">= 1.0"
ExceedsOneMut(q) == q.num >= q.den

\* q > 1.0
ExceedsOne(q) == q.num > q.den

\* the hypervisor row, from the hypervisor, the allocated figures and the
\* number of instances counted on it; percentages and ratios in hundredths
HypervisorDetails(hypervisor, allocated_vcpus, allocated_memory, active) ==
    LET cpu_overcommit_ratio == Quotient(allocated_vcpus, hypervisor.vcpus)
        memory_overcommit_ratio ==
            Quotient(allocated_memory, hypervisor.memory_size)
        physical_cpu_usage ==
            Times100(Quotient(hypervisor.vcpus_used, hypervisor.vcpus))
        physical_memory_usage ==
            Times100(Quotient(hypervisor.memory_used, hypervisor.memory_size))
        allocated_cpu_percentage ==
            Times100(Quotient(allocated_vcpus, hypervisor.vcpus))
        allocated_memory_percentage ==
            Times100(Quotient(allocated_memory, hypervisor.memory_size))
        disk_usage ==
            Times100(Quotient(hypervisor.local_disk_used,
                              hypervisor.local_disk_size))
    IN  [Hostname |-> hypervisor.name,
         Physical_CPUs |-> hypervisor.vcpus,
         Physical_CPUs_Used |-> hypervisor.vcpus_used,
         Physical_CPU_Usage |-> Round2(physical_cpu_usage),
         Allocated_VCPUs |-> allocated_vcpus,
         Allocated_CPU |-> Round2(allocated_cpu_percentage),
         CPU_Overcommit_Ratio |-> Round2(cpu_overcommit_ratio),
         Physical_RAM_Total |-> hypervisor.memory_size,
         Physical_RAM_Used |-> hypervisor.memory_used,
         Physical_RAM_Usage |-> Round2(physical_memory_usage),
         Allocated_RAM |-> allocated_memory,
         Allocated_RAM_Pct |-> Round2(allocated_memory_percentage),
         Memory_Overcommit_Ratio |-> Round2(memory_overcommit_ratio),
         Disk_Total |-> hypervisor.local_disk_size,
         Disk_Used |-> hypervisor.local_disk_used,
         Disk_Usage |-> Round2(disk_usage),
         Active_Instances |-> active,
         CPU_Overcommitted |->
             IF ExceedsOne(cpu_overcommit_ratio) THEN "Yes" ELSE "No",
         Memory_Overcommitted |->
             IF ExceedsOne(memory_overcommit_ratio) THEN "Yes" ELSE "No"]

-----------------------------------------------------------------------------
(* get_openstack_info_and_export_csv: the lookups of one row *)

\* a lookup by id returns what the control plane holds or raises
Returned(outcome) == outcome = "ok"

RECURSIVE VolumesInfo(_, _, _)
\* the loop over server.attached_volumes from the k-th volume on: the
\* lookups made, the entries collected and what escaped, if anything
VolumesInfo(attached, outcomes, k) ==
    IF k > Len(attached)
    THEN [calls |-> <<>>, volumes_info |-> <<>>, raised |-> "no"]
    ELSE IF outcomes[k] = "KeyboardInterrupt"
    THEN [calls |-> <<Call("get_volume", attached[k], FALSE)>>,
          volumes_info |-> <<>>, raised |-> "KeyboardInterrupt"]
    ELSE LET rest == VolumesInfo(attached, outcomes, k + 1)
             entry == IF outcomes[k] = "ok"
                      THEN VolumeResolved(Volumes[attached[k]])
                      ELSE VolumeError(attached[k], "e")
         IN  [calls |-> <<Call("get_volume", attached[k], outcomes[k] = "ok")>>
                            \o rest.calls,
              volumes_info |-> <<entry>> \o rest.volumes_info,
              raised |-> rest.raised]

\* whether what get_flavor raised leaves the instance pass: the lookup is
\* not inside a try block
FlavorEscapes(outcome) == ~Returned(outcome)

\* one turn of the loop over all_servers in the instance pass: the lookups
\* made, the row built and what escaped, if anything
InstanceRun(i, server, project, flavor, image, volumes) ==
    LET looked == server.flavor # "absent"
        got == IF looked /\ flavor = "ok" THEN server.flavor ELSE "None"
        vols == VolumesInfo(server.attached_volumes, volumes, 1)
        c1 == <<Call("get_project", server.project_id, project = "ok")>>
        c2 == IF looked
              THEN <<Call("get_flavor", server.flavor, Returned(flavor))>>
              ELSE <<>>
        c3 == <<Call("get_image", server.image, image = "ok")>>
    IN  IF project # "ok"
        THEN [calls |-> c1, raised |-> project, row |-> <<>>]
        ELSE IF looked /\ FlavorEscapes(flavor)
        THEN [calls |-> c1 \o c2, raised |-> flavor, row |-> <<>>]
        ELSE IF image # "ok"
        THEN [calls |-> c1 \o c2 \o c3, raised |-> image, row |-> <<>>]
        ELSE IF vols.raised = "no" /\ UptimeRaises(server)
        THEN [calls |-> c1 \o c2 \o c3 \o vols.calls,
              raised |-> "Exception", row |-> <<>>]
        ELSE [calls |-> c1 \o c2 \o c3 \o vols.calls,
              raised |-> vols.raised,
              row |-> InstanceDetails(i, server, got, vols.volumes_info)]

\* the same test without the status
OnHypervisorMut(server, hypervisor) ==
    HostnameOr(server, "") = hypervisor.name

\* "server_hypervisor == hypervisor.name and server.status in [...]"
OnHypervisor(server, hypervisor) ==
    /\ HostnameOr(server, "") = hypervisor.name
    /\ server.status \in ActiveStatuses

\* "if 'flavor' in server and server.flavor"
LooksUpFlavor(server, hypervisor) ==
    OnHypervisor(server, hypervisor) /\ server.flavor # "absent"

\* the same lookup outside the try block
FlavorUncaughtMut(outcome) == ~Returned(outcome)

\* whether what get_flavor raised leaves the hypervisor pass: "except
\* Exception" prints a warning and goes on
FlavorUncaught(outcome) == outcome = "KeyboardInterrupt"

RECURSIVE Correlate(_, _, _, _)
\* the loop over all_servers for one hypervisor, from the k-th server on:
\* the figures accumulated, the instances counted, the lookups made and
\* what escaped, if anything
Correlate(hypervisor, servers, outcomes, k) ==
    IF k > Len(servers)
    THEN [allocated_vcpus |-> 0, allocated_memory |-> 0, instances |-> 0,
          calls |-> <<>>, raised |-> "no"]
    ELSE LET server == servers[k]
             looks == LooksUpFlavor(server, hypervisor)
             lookup == <<Call("get_flavor", server.flavor, Returned(outcomes[k]))>>
         IN  IF looks /\ FlavorUncaught(outcomes[k])
             THEN [allocated_vcpus |-> 0, allocated_memory |-> 0,
                   instances |-> 1, calls |-> lookup,
                   raised |-> outcomes[k]]
             ELSE LET rest == Correlate(hypervisor, servers, outcomes, k + 1)
                      adds == looks /\ outcomes[k] = "ok"
                  IN  [allocated_vcpus |->
                           (IF adds THEN Flavors[server.flavor].vcpus ELSE 0)
                               + rest.allocated_vcpus,
                       allocated_memory |->
                           (IF adds THEN Flavors[server.flavor].ram ELSE 0)
                               + rest.allocated_memory,
                       instances |->
                           (IF OnHypervisor(server, hypervisor) THEN 1 ELSE 0)
                               + rest.instances,
                       calls |->
                           (IF ~looks THEN <<>>
                            ELSE IF outcomes[k] = "Exception"
                            THEN lookup \o <<Call("print_warning", ServerId(k), TRUE)>>
                            ELSE lookup) \o rest.calls,
                       raised |-> rest.raised]

-----------------------------------------------------------------------------
(* get_openstack_info_and_export_csv: the two passes *)

\* the variables of the credential resolution and of the command line,
\* which the report builder leaves alone
setupVars == <<sdk_available, auth_method, config_file, environ, file,
               file_config, prompt, answer, auth_config, obtained, path_idx,
               is_valid, missing_fields, connect_args, args, exit_status,
               instance_filename, hypervisor_filename, conn,
               export_instances, export_hypervisors, cloud>>

\* the same writer with "dict_writer.writerows(rows[1:])"
WriteCsvMut(filename, rows) ==
    (filename :> [header |-> DOMAIN rows[1], rows |-> Tail(rows)])
        @@ [name \in DOMAIN out_files \ {filename} |-> out_files[name]]

\* "with open(filename, 'w', newline='')", writeheader and writerows
WriteCsv(filename, rows) ==
    (filename :> [header |-> DOMAIN rows[1], rows |-> rows])
        @@ [name \in DOMAIN out_files \ {filename} |-> out_files[name]]

\* the same test written "if not export_instances and export_hypervisors"
NoExportEnabledMut(instances, hypervisors) == ~instances /\ hypervisors

\* "if not export_instances and not export_hypervisors"
NoExportEnabled(instances, hypervisors) == ~instances /\ ~hypervisors

\* the two tests at the top
ReportEntry ==
    /\ pc = "report"
    /\ IF conn = "None"
       THEN /\ calls' = Append(calls, Call("print_no_connection", "", TRUE))
            /\ pc' = "report_returned"
       ELSE IF NoExportEnabled(export_instances, export_hypervisors)
       THEN /\ calls' = Append(calls, Call("print_no_export", "", TRUE))
            /\ pc' = "report_returned"
       ELSE /\ calls' = calls
            /\ pc' = "instance_pass"
    /\ UNCHANGED <<setupVars, result, all_servers, instance_data,
                   hypervisor_data, out_files>>

\* the same tests without the branch of "else: if export_hypervisors:"
NeedsServersMut(instances, hypervisors) == instances

\* "if export_instances:" and, in its else branch, "if export_hypervisors:"
\* both list the servers
NeedsServers(instances, hypervisors) == instances \/ hypervisors

\* the same call without all_projects=True
ServersCallMut(outcome) == Call("servers", "", outcome = "ok")

\* conn.compute.servers(details=True, all_projects=True)
ServersCall(outcome) == Call("servers", "all_projects", outcome = "ok")

\* the instance pass up to its loop: the servers are listed if a pass
\* needs them
FetchServers ==
    /\ pc = "instance_pass"
    /\ IF NeedsServers(export_instances, export_hypervisors)
       THEN \E outcome \in SdkOutcomes :
               LET listed == <<ServersCall(outcome)>>
               IN  IF outcome # "ok"
                   THEN /\ calls' = calls \o listed
                        /\ pc' = "report_raised"
                        /\ result' = Raise(outcome, "servers", <<>>)
                        /\ all_servers' = all_servers
                   ELSE /\ all_servers' = cloud.servers
                        /\ result' = result
                        /\ IF ~export_instances
                           THEN /\ calls' = calls \o listed
                                /\ pc' = "hypervisor_pass"
                           ELSE IF cloud.servers = <<>>
                           THEN /\ calls' = calls \o listed
                                      \o <<Call("print_no_instance_data", "", TRUE)>>
                                /\ pc' = "hypervisor_pass"
                           ELSE /\ calls' = calls \o listed
                                /\ pc' = "instance_rows"
       ELSE /\ pc' = "hypervisor_pass"
            /\ UNCHANGED <<calls, result, all_servers>>
    /\ UNCHANGED <<setupVars, instance_data, hypervisor_data, out_files>>

\* one turn of "for server in all_servers"
ProcessInstance ==
    /\ pc = "instance_rows"
    /\ Len(instance_data) < Len(all_servers)
    /\ LET i == Len(instance_data) + 1
           server == all_servers[i]
       IN  \E project \in SdkOutcomes :
           \E flavor \in IF project = "ok" /\ server.flavor # "absent"
                         THEN SdkOutcomes ELSE {"ok"} :
           \E image \in IF project = "ok" /\ Returned(flavor)
                        THEN SdkOutcomes ELSE {"ok"} :
           \E volumes \in IF project = "ok" /\ Returned(flavor) /\ image = "ok"
                          THEN [1..Len(server.attached_volumes) -> SdkOutcomes]
                          ELSE {[k \in 1..Len(server.attached_volumes) |-> "ok"]} :
               LET run == InstanceRun(i, server, project, flavor, image, volumes)
               IN  /\ calls' = calls \o run.calls
                   /\ IF run.raised = "no"
                      THEN /\ instance_data' = Append(instance_data, run.row)
                           /\ UNCHANGED <<pc, result>>
                      ELSE /\ pc' = "report_raised"
                           /\ result' = Raise(run.raised, ServerId(i), <<>>)
                           /\ instance_data' = instance_data
    /\ UNCHANGED <<setupVars, all_servers, hypervisor_data, out_files>>

\* the same export inside the loop, after the first row
RowsCompleteMut(built, fetched) == Len(built) >= 1

\* the loop over all_servers has ended: a row was appended for each
RowsComplete(built, fetched) == Len(built) = Len(fetched)

\* "if instance_data:" after the loop
ExportInstances ==
    /\ pc = "instance_rows"
    /\ RowsComplete(instance_data, all_servers)
    /\ \E outcome \in SdkOutcomes :
        /\ calls' = calls \o <<Call("open", instance_filename, outcome = "ok")>>
                      \o (IF outcome = "ok"
                          THEN <<Call("print_exported", instance_filename, TRUE)>>
                          ELSE <<>>)
        /\ IF outcome = "ok"
           THEN /\ out_files' = WriteCsv(instance_filename, instance_data)
                /\ pc' = "hypervisor_pass"
                /\ result' = result
           ELSE /\ out_files' = out_files
                /\ pc' = "report_raised"
                /\ result' = Raise(outcome, "open", <<>>)
    /\ UNCHANGED <<setupVars, all_servers, instance_data, hypervisor_data>>

\* "if hypervisors:" on what conn.compute.hypervisors() returned: a list is
\* true when it is not empty, a generator always
IsTruthy(kind, listed) == kind = "generator" \/ listed # <<>>

\* the hypervisor pass up to its loop
FetchHypervisors ==
    /\ pc = "hypervisor_pass"
    /\ IF export_hypervisors
       THEN \E outcome \in SdkOutcomes :
               LET listed == <<Call("hypervisors", "", outcome = "ok")>>
               IN  IF outcome # "ok"
                   THEN /\ calls' = calls \o listed
                        /\ pc' = "report_raised"
                        /\ result' = Raise(outcome, "hypervisors", <<>>)
                   ELSE /\ result' = result
                        /\ IF IsTruthy(cloud.hypervisors_type, cloud.hypervisors)
                           THEN /\ calls' = calls \o listed
                                /\ pc' = "hypervisor_rows"
                           ELSE /\ calls' = calls \o listed
                                      \o <<Call("print_no_hypervisor_data", "", TRUE)>>
                                /\ pc' = "report_returned"
       ELSE /\ pc' = "report_returned"
            /\ UNCHANGED <<calls, result>>
    /\ UNCHANGED <<setupVars, all_servers, instance_data, hypervisor_data,
                   out_files>>

\* one turn of "for hypervisor in hypervisors"
ProcessHypervisor ==
    /\ pc = "hypervisor_rows"
    /\ Len(hypervisor_data) < Len(cloud.hypervisors)
    /\ LET hypervisor == cloud.hypervisors[Len(hypervisor_data) + 1]
       IN  \E outcomes \in
               {o \in [1..Len(all_servers) -> SdkOutcomes] :
                   \A k \in 1..Len(all_servers) :
                       ~LooksUpFlavor(all_servers[k], hypervisor) => o[k] = "ok"} :
               LET run == Correlate(hypervisor, all_servers, outcomes, 1)
               IN  /\ calls' = calls \o run.calls
                   /\ IF run.raised = "no"
                      THEN /\ hypervisor_data' =
                                Append(hypervisor_data,
                                       HypervisorDetails(hypervisor,
                                                         run.allocated_vcpus,
                                                         run.allocated_memory,
                                                         run.instances))
                           /\ UNCHANGED <<pc, result>>
                      ELSE /\ pc' = "report_raised"
                           /\ result' = Raise(run.raised, hypervisor.name, <<>>)
                           /\ hypervisor_data' = hypervisor_data
    /\ UNCHANGED <<setupVars, all_servers, instance_data, out_files>>

\* "if hypervisor_data:" after the loop
ExportHypervisors ==
    /\ pc = "hypervisor_rows"
    /\ Len(hypervisor_data) = Len(cloud.hypervisors)
    /\ IF hypervisor_data = <<>>
       THEN /\ pc' = "report_returned"
            /\ UNCHANGED <<calls, out_files, result>>
       ELSE \E outcome \in SdkOutcomes :
               /\ calls' = calls
                     \o <<Call("open", hypervisor_filename, outcome = "ok")>>
                     \o (IF outcome = "ok"
                         THEN <<Call("print_exported", hypervisor_filename, TRUE)>>
                         ELSE <<>>)
               /\ IF outcome = "ok"
                  THEN /\ out_files' = WriteCsv(hypervisor_filename, hypervisor_data)
                       /\ pc' = "report_returned"
                       /\ result' = result
                  ELSE /\ out_files' = out_files
                       /\ pc' = "report_raised"
                       /\ result' = Raise(outcome, "open", <<>>)
    /\ UNCHANGED <<setupVars, all_servers, instance_data, hypervisor_data>>

NextReport ==
    \/ ReportEntry
    \/ FetchServers
    \/ ProcessInstance
    \/ ExportInstances
    \/ FetchHypervisors
    \/ ProcessHypervisor
    \/ ExportHypervisors

-----------------------------------------------------------------------------
(* get_openstack_info_and_export_csv on its own *)

\* the credential resolution before it is entered
SetupIdle ==
    /\ sdk_available = TRUE /\ auth_method = "none" /\ config_file = "None"
    /\ environ = EmptyEnviron /\ file = MissingFile
    /\ file_config = NoneConfig /\ prompt = 0 /\ answer = EmptyStr
    /\ auth_config = EmptyConfig /\ obtained = EmptyConfig /\ path_idx = 0
    /\ is_valid = FALSE /\ missing_fields = <<>>
    /\ connect_args = EmptyConfig

\* the hypervisors of the two hosts: one with capacity, one with none
ReportHypervisors ==
    [h1 |-> Hypervisor("h1", MaxFigure, 1, 2 * MaxFigure, 2, MaxFigure, 1),
     h2 |-> Hypervisor("h2", 0, 0, 0, 0, 0, 0)]

\* the hypervisor lists: any of the given hosts, in any order
HypervisorLists(hosts) ==
    {[k \in 1..Len(q) |-> ReportHypervisors[q[k]]] : q \in DistinctSeqs(hosts)}

\* servers that differ in what the hypervisor pass looks at: of the first
\* flavor with any status, on either host or with no hostname; active and
\* of the other flavor on either host; active on the first host with no
\* flavor
CorrelatedServers ==
    {Server(status, hostname, "f1", <<>>) :
        status \in Statuses, hostname \in HostNames \cup {"absent"}}
    \cup {Server("ACTIVE", hostname, "f2", <<>>) : hostname \in HostNames}
    \cup {Server("ACTIVE", "h1", "absent", <<>>)}

\* servers that differ in what the instance pass looks at: with a flavor or
\* none, with any volumes attached in any order
AttachedServers ==
    {Server("ACTIVE", "h1", flavor, attached_volumes) :
        flavor \in {"f1", "absent"},
        attached_volumes \in DistinctSeqs(DOMAIN Volumes)}

\* the control planes that list servers of the given kinds and hypervisors
\* of the given hosts; conn.compute.hypervisors() returns a generator, or a
\* list (which differs from it when it is empty)
Clouds(servers, hosts) ==
    {c \in [servers : SeqsUpTo(servers, MaxServers),
            hypervisors : HypervisorLists(hosts),
            hypervisors_type : {"list", "generator"}] :
        c.hypervisors_type = "list" => c.hypervisors = <<>>}

\* a call with or without a connection, with either pass on or off
InitBuilder(clouds) ==
    /\ pc = "report"
    /\ SetupIdle
    /\ calls = <<>>
    /\ result = NoResult
    /\ args = NoArgs
    /\ exit_status = "running"
    /\ instance_filename = "openstack_instances.csv"
    /\ hypervisor_filename = "openstack_hypervisors.csv"
    /\ conn \in {"None", "conn"}
    /\ export_instances \in BOOLEAN
    /\ export_hypervisors \in BOOLEAN
    /\ cloud \in clouds
    /\ all_servers = <<>>
    /\ instance_data = <<>>
    /\ hypervisor_data = <<>>
    /\ out_files = NoFiles

InitReport == InitBuilder(Clouds(CorrelatedServers, HostNames))

SpecReport == InitReport /\ [][NextReport]_vars

InitInstances == InitBuilder(Clouds(AttachedServers, {"h1"}))

SpecInstances == InitInstances /\ [][NextReport]_vars

\* the two file names are the caller's: the defaults, or the name of the
\* instance file given for the hypervisor file as well
InitFiles ==
    /\ pc = "report"
    /\ SetupIdle
    /\ calls = <<>>
    /\ result = NoResult
    /\ args = NoArgs
    /\ exit_status = "running"
    /\ instance_filename = "openstack_instances.csv"
    /\ hypervisor_filename \in {"openstack_hypervisors.csv", instance_filename}
    /\ conn \in {"None", "conn"}
    /\ export_instances \in BOOLEAN
    /\ export_hypervisors \in BOOLEAN
    /\ cloud \in Clouds({Server("ACTIVE", "h1", "f1", <<>>),
                         Server("SHUTOFF", "h2", "absent", <<"v1">>)},
                        HostNames)
    /\ all_servers = <<>>
    /\ instance_data = <<>>
    /\ hypervisor_data = <<>>
    /\ out_files = NoFiles

SpecFiles == InitFiles /\ [][NextReport]_vars

-----------------------------------------------------------------------------
(* the figures of a hypervisor row on their own *)

Figures == 0..MaxFigure

InitOvercommit ==
    /\ pc = "hypervisor_row"
    /\ SetupIdle
    /\ calls = <<>>
    /\ result = NoResult
    /\ args = NoArgs
    /\ exit_status = "running"
    /\ instance_filename = "openstack_instances.csv"
    /\ hypervisor_filename = "openstack_hypervisors.csv"
    /\ conn = "conn"
    /\ export_instances = TRUE
    /\ export_hypervisors = TRUE
    /\ \E vcpus, vcpus_used, memory_size, memory_used, local_disk_size,
          local_disk_used \in Figures :
        cloud = [servers |-> <<>>,
                 hypervisors |-> <<Hypervisor("h1", vcpus, vcpus_used,
                                              memory_size, memory_used,
                                              local_disk_size, local_disk_used)>>,
                 hypervisors_type |-> "list"]
    /\ all_servers = <<>>
    /\ instance_data = <<>>
    /\ hypervisor_data = <<>>
    /\ out_files = NoFiles

\* the row of the hypervisor, whatever the correlation has accumulated
BuildRow ==
    /\ pc = "hypervisor_row"
    /\ \E allocated_vcpus, allocated_memory \in Figures :
        hypervisor_data' = <<HypervisorDetails(cloud.hypervisors[1],
                                               allocated_vcpus,
                                               allocated_memory, 0)>>
    /\ pc' = "hypervisor_row_built"
    /\ UNCHANGED <<setupVars, calls, result, all_servers, instance_data,
                   out_files>>

SpecOvercommit == InitOvercommit /\ [][BuildRow]_vars

-----------------------------------------------------------------------------
(* the instance row on its own *)

\* most addresses of a server
MaxAddresses == 2

\* what 'OS-SRV-USG:launched_at' may hold: nothing (the key is missing), an
\* empty text, a timestamp with a "Z", one without an offset, or no
\* timestamp at all
LaunchTimestamps ==
    {"absent", "", "2023-01-01T12:00:00Z", "2023-01-01T12:00:00.000000",
     "yesterday"}

\* the addresses: on a network named after its use or not, of either
\* family, fixed or floating
Addresses ==
    [network : {<<"private">>, <<"floating", "-net">>},
     addr : {<<"10.0.0.1">>, <<"2001", ":", "db8", ":", ":", "1">>},
     type : {<<"fixed">>, <<"floating">>}]

\* one server fetched, its lookups still to be made
InitInstanceRow ==
    /\ pc = "instance_rows"
    /\ SetupIdle
    /\ calls = <<>>
    /\ result = NoResult
    /\ args = NoArgs
    /\ exit_status = "running"
    /\ instance_filename = "openstack_instances.csv"
    /\ hypervisor_filename = "openstack_hypervisors.csv"
    /\ conn = "conn"
    /\ export_instances = TRUE
    /\ export_hypervisors = FALSE
    /\ \E status \in Statuses, launched_at \in LaunchTimestamps,
          addresses \in SeqsUpTo(Addresses, MaxAddresses) :
        cloud = [servers |-> <<Launched(Server(status, "h1", "f1", <<>>),
                                        launched_at, addresses)>>,
                 hypervisors |-> <<>>,
                 hypervisors_type |-> "list"]
    /\ all_servers = cloud.servers
    /\ instance_data = <<>>
    /\ hypervisor_data = <<>>
    /\ out_files = NoFiles

\* the turn of the loop for that server, every lookup answering
BuildInstanceRow ==
    /\ pc = "instance_rows"
    /\ instance_data = <<>>
    /\ LET run == InstanceRun(1, all_servers[1], "ok", "ok", "ok", <<>>)
       IN  /\ calls' = calls \o run.calls
           /\ IF run.raised = "no"
              THEN /\ instance_data' = <<run.row>>
                   /\ pc' = "instance_row_built"
                   /\ result' = result
              ELSE /\ instance_data' = instance_data
                   /\ pc' = "report_raised"
                   /\ result' = Raise(run.raised, ServerId(1), <<>>)
    /\ UNCHANGED <<setupVars, all_servers, hypervisor_data, out_files>>

SpecInstanceRow == InitInstanceRow /\ [][BuildInstanceRow]_vars

-----------------------------------------------------------------------------
(* The command: parse_arguments and the block under __main__ *)

\* what parse_arguments can return: --auth-method is one of the choices,
\* --config-file is given (possibly empty) or not, each of the two toggles
\* is left on or switched off, each of the two shortcuts is given or not
Namespaces ==
    {ns \in [auth_method : AuthMethods,
             config_file : {"None", "", "custom.conf"},
             export_instances : BOOLEAN,
             export_hypervisors : BOOLEAN,
             instances_only : BOOLEAN,
             hypervisors_only : BOOLEAN] :
        ns.auth_method # "config" => ns.config_file = "None"}

\* the control planes the command may meet: servers with a flavor and a
\* volume, the first host
MainClouds == Clouds({Server("ACTIVE", "h1", "f1", <<"v1">>)}, {"h1"})

InitMain ==
    /\ pc = "main"
    /\ sdk_available \in BOOLEAN
    /\ auth_method = "none" /\ config_file = "None"
    /\ environ = EmptyEnviron /\ file = MissingFile
    /\ file_config = NoneConfig /\ prompt = 0 /\ answer = EmptyStr
    /\ auth_config = EmptyConfig /\ obtained = EmptyConfig /\ path_idx = 0
    /\ is_valid = FALSE /\ missing_fields = <<>>
    /\ connect_args = EmptyConfig
    /\ calls = <<>>
    /\ result = NoResult
    /\ ReportIdle

\* what the command does not touch before it calls the report builder
builderVars == <<instance_filename, hypervisor_filename, conn,
                 export_instances, export_hypervisors, cloud, all_servers,
                 instance_data, hypervisor_data, out_files>>

\* the locals of setup_openstack_connection
setupLocals == <<environ, file, file_config, prompt, answer, auth_config,
                 obtained, path_idx, is_valid, missing_fields, connect_args>>

\* args = parse_arguments()
ParseArguments ==
    /\ pc = "main"
    /\ args' \in Namespaces
    /\ pc' = "sdk_check"
    /\ UNCHANGED <<sdk_available, auth_method, config_file, setupLocals,
                   calls, result, exit_status, builderVars>>

\* "if not OPENSTACK_AVAILABLE: ... sys.exit(1)"
MainCheckSDK ==
    /\ pc = "sdk_check"
    /\ IF sdk_available
       THEN /\ pc' = "shortcuts"
            /\ UNCHANGED <<calls, exit_status>>
       ELSE /\ calls' = Append(calls, Call("print_no_sdk", "", TRUE))
            /\ exit_status' = 1
            /\ pc' = "exited"
    /\ UNCHANGED <<sdk_available, auth_method, config_file, setupLocals,
                   result, args, builderVars>>

\* "if args.instances_only: ... elif args.hypervisors_only: ..."
ApplyShortcuts(ns) ==
    IF ns.instances_only
    THEN [ns EXCEPT !.export_instances = TRUE, !.export_hypervisors = FALSE]
    ELSE IF ns.hypervisors_only
    THEN [ns EXCEPT !.export_instances = FALSE, !.export_hypervisors = TRUE]
    ELSE ns

HandleShortcuts ==
    /\ pc = "shortcuts"
    /\ args' = ApplyShortcuts(args)
    /\ pc' = "setup_call"
    /\ UNCHANGED <<sdk_available, auth_method, config_file, setupLocals,
                   calls, result, exit_status, builderVars>>

\* conn = setup_openstack_connection(...): the call
CallSetup ==
    /\ pc = "setup_call"
    /\ auth_method' = args.auth_method
    /\ config_file' = IF args.auth_method = "args" THEN "None"
                      ELSE args.config_file
    /\ pc' = "start"
    /\ UNCHANGED <<sdk_available, setupLocals, calls, result, args,
                   exit_status, builderVars>>

\* the same call made whatever setup_openstack_connection did
ConnectionReadyMut(at) == at \in {"returned", "raised"}

\* the statement after "conn = setup_openstack_connection(...)" is reached
\* when the call has returned
ConnectionReady(at) == at = "returned"

\* setup_openstack_connection has returned the connection (its locals are
\* gone) and get_openstack_info_and_export_csv is called with it, on the
\* control plane as it is then
CallReport ==
    /\ ConnectionReady(pc)
    /\ conn' = "conn"
    /\ instance_filename' = instance_filename
    /\ hypervisor_filename' = hypervisor_filename
    /\ export_instances' = args.export_instances
    /\ export_hypervisors' = args.export_hypervisors
    /\ cloud' \in MainClouds
    /\ environ' = EmptyEnviron /\ file' = MissingFile
    /\ file_config' = NoneConfig /\ prompt' = 0 /\ answer' = EmptyStr
    /\ auth_config' = EmptyConfig /\ obtained' = EmptyConfig
    /\ path_idx' = 0 /\ is_valid' = FALSE /\ missing_fields' = <<>>
    /\ connect_args' = EmptyConfig
    /\ pc' = "report"
    /\ UNCHANGED <<sdk_available, auth_method, config_file, calls, result,
                   args, exit_status, all_servers, instance_data,
                   hypervisor_data, out_files>>

\* the same handlers with "except Exception" exiting with 0
ExitStatusMut(kind) == IF kind = "KeyboardInterrupt" THEN 1 ELSE 0

\* "except KeyboardInterrupt: ... sys.exit(1)" and "except Exception as e:
\* ... sys.exit(1)"; falling off the end of the block exits with 0
ExitStatus(kind) ==
    IF kind = "KeyboardInterrupt" THEN 1
    ELSE IF kind \in {"ImportError", "ValueError", "Exception"} THEN 1
    ELSE 0

\* an exception has left setup_openstack_connection or the report builder
HandleError ==
    /\ pc \in {"raised", "report_raised"}
    /\ calls' = Append(calls,
                       Call(IF result.kind = "KeyboardInterrupt"
                            THEN "print_cancelled" ELSE "print_error_main",
                            "", TRUE))
    /\ exit_status' = ExitStatus(result.kind)
    /\ pc' = "exited"
    /\ UNCHANGED <<sdk_available, auth_method, config_file, setupLocals,
                   result, args, builderVars>>

\* the report builder has returned
Exit ==
    /\ pc = "report_returned"
    /\ exit_status' = ExitStatus(result.kind)
    /\ pc' = "exited"
    /\ UNCHANGED <<sdk_available, auth_method, config_file, setupLocals,
                   calls, result, args, builderVars>>

NextMain ==
    \/ ParseArguments
    \/ MainCheckSDK
    \/ HandleShortcuts
    \/ CallSetup
    \/ CheckSDK
    \/ ResolveAuto
    \/ AutoTryFile
    \/ AutoFallback
    \/ ResolveEnv
    \/ ResolveConfig
    \/ ResolveInteractive
    \/ ResolveArgs
    \/ ValidateResolved
    \/ Connect
    \/ Authorize
    \/ CallReport
    \/ ReportEntry
    \/ FetchServers
    \/ ProcessInstance
    \/ ExportInstances
    \/ FetchHypervisors
    \/ ProcessHypervisor
    \/ ExportHypervisors
    \/ HandleError
    \/ Exit

SpecMain == InitMain /\ [][NextMain]_vars

-----------------------------------------------------------------------------
(* Properties *)

\* the order in which the required fields are declared
DeclaredOrder == <<"auth_url", "username", "password", "project_name">>

PositionOf(field) == CHOOSE p \in 1..Len(DeclaredOrder) : DeclaredOrder[p] = field

AbsentOrEmpty(cfg, key) == key \notin DOMAIN cfg \/ cfg[key] = EmptyStr

\* C1: for every credential record, validate_auth_config lists exactly the
\* required fields that are absent or empty, in the declared order, and
\* answers "valid" exactly when that list is empty.
C1_ValidateListsMissing ==
    pc = "validated" =>
        /\ \A i \in 1..Len(missing_fields) :
              /\ \E p \in 1..Len(DeclaredOrder) : DeclaredOrder[p] = missing_fields[i]
              /\ AbsentOrEmpty(auth_config, missing_fields[i])
        /\ \A p \in 1..Len(DeclaredOrder) :
              AbsentOrEmpty(auth_config, DeclaredOrder[p])
                  => \E i \in 1..Len(missing_fields) :
                        missing_fields[i] = DeclaredOrder[p]
        /\ \A i, j \in 1..Len(missing_fields) :
              i < j => PositionOf(missing_fields[i]) < PositionOf(missing_fields[j])
        /\ is_valid <=> (missing_fields = <<>>)

\* C1 witness: a record with one required field empty, one absent and the
\* other two set has been validated.
C1_Witness ==
    /\ pc = "validated"
    /\ "auth_url" \in DOMAIN auth_config /\ auth_config["auth_url"] = EmptyStr
    /\ "project_name" \notin DOMAIN auth_config
    /\ missing_fields = <<"auth_url", "project_name">>
    /\ ~is_valid

\* C7 as stated: the record's keys are the fields of the variables that are
\* present, each with the variable's value, and nothing else.
C7_KeysOfPresentVariables ==
    pc = "environment_read" =>
        /\ DOMAIN auth_config = {env_mapping[v] : v \in DOMAIN environ}
        /\ \A v \in DOMAIN environ : auth_config[env_mapping[v]] = environ[v]

\* C7 amended: the record's keys are the fields of the variables that are
\* set to a non-empty value, each with the variable's value; a variable that
\* is unset or set to the empty string gives no key, and no default is put
\* in its place.
C7_KeysOfNonEmptyVariables ==
    pc = "environment_read" =>
        /\ \A v \in EnvVars :
              (v \in DOMAIN environ /\ environ[v] # EmptyStr)
                  <=> env_mapping[v] \in DOMAIN auth_config
        /\ \A k \in DOMAIN auth_config :
              \E v \in DOMAIN environ :
                  env_mapping[v] = k /\ auth_config[k] = environ[v]

\* C7 witness: the environment has a variable set to a value, one set to
\* the empty string and one unset, and has been read.
C7_Witness ==
    /\ pc = "environment_read"
    /\ "OS_AUTH_URL" \in DOMAIN environ /\ environ["OS_AUTH_URL"] # EmptyStr
    /\ "OS_REGION_NAME" \in DOMAIN environ /\ environ["OS_REGION_NAME"] = EmptyStr
    /\ "OS_INTERFACE" \notin DOMAIN environ
    /\ DOMAIN auth_config = {"auth_url"}

\* C6 as stated: load_config_file gives None when the path does not exist,
\* the file cannot be parsed or it has no [openstack] section, and when the
\* section exists it gives a record (not None) holding exactly the
\* recognized keys of the section, each with its value.  The keys of the
\* section are taken as configparser counts them (those inherited from
\* [DEFAULT] included) and a value as configparser reads it.
C6_LoadGivesSectionKeys ==
    pc = "loaded" =>
        /\ (~file.exists \/ ~file.parses \/ ~file.has_section) => file_config.none
        /\ (file.exists /\ file.parses /\ file.has_section) =>
              /\ ~file_config.none
              /\ DOMAIN file_config.config = {k \in Keys : SectionHas(file, k)}
              /\ \A k \in DOMAIN file_config.config :
                    Interpolate(SectionRaw(file, k)).ok =>
                        file_config.config[k] = Interpolate(SectionRaw(file, k)).value

\* the defaults a prompt applies, by key
PromptDefault(key) ==
    IF key = "interface" THEN DEFAULT_INTERFACE ELSE DEFAULT_DOMAIN

\* the prompts that have a default or are optional
OptionalPrompts == {i \in 1..Len(prompt_keys) : prompt_keys[i] \in OptionalKeys}

\* s is t without its leading and trailing blanks
IsStripped(s, t) ==
    \E i \in 1..(Len(t) + 1) : \E j \in 0..Len(t) :
        /\ s = SubSeq(t, i, j)
        /\ \A n \in 1..Len(t) : (n < i \/ n > j) => t[n] = " "
        /\ s # <<>> => (s[1] # " " /\ s[Len(s)] # " ")

C9_RequiredAnswersNonEmpty ==
    pc = "prompted" =>
        \A k \in {"auth_url", "username", "project_name"} :
            k \in DOMAIN auth_config /\ auth_config[k] # EmptyStr

\* the calls of one kind, by their places in calls
Places(op) == {i \in 1..Len(calls) : calls[i].op = op}

PathPlace(path) ==
    CHOOSE n \in 1..Len(default_config_paths) : default_config_paths[n] = path

\* setup_openstack_connection has a record from the chosen strategy: it is
\* past the resolution, and under config load_config_file returned one
RecordObtained ==
    /\ sdk_available
    /\ auth_method \in AuthMethods
    /\ pc \notin {"start", "resolve", "auto_files", "auto_check"}
    /\ auth_method = "config" => (Places("load") # {} /\ ~file_config.none)

Incomplete(cfg) == \E k \in RequiredKeys : AbsentOrEmpty(cfg, k)

\* C2 as stated: under every strategy, a record that lacks a required field
\* or has it empty makes setup_openstack_connection fail with the validation
\* error that lists the missing fields in the declared order, and
\* openstack.connect is never called with an incomplete record.
C2_IncompleteRecordIsValidationError ==
    /\ (pc \in {"raised", "returned"} /\ RecordObtained /\ Incomplete(auth_config)) =>
          result = Raise("ValueError", "Missing required authentication fields",
                         SelectSeq(DeclaredOrder,
                                   LAMBDA f : AbsentOrEmpty(auth_config, f)))
    /\ Places("connect") # {} => ~Incomplete(connect_args)

\* C3: when the resolution succeeds, the record handed to openstack.connect
\* has user_domain_name, project_domain_name and interface: "default",
\* "default" and "public" where the source gave no such key, the source's
\* value where it did; region_name is there only if the source gave it, and
\* every key the source gave is handed over unchanged.
C3_DefaultsOnlyWhereAbsent ==
    LET handed == IF pc = "connect" THEN auth_config ELSE connect_args
    IN  (pc = "connect" \/ Places("connect") # {}) =>
            /\ DOMAIN handed =
                  DOMAIN obtained
                      \cup {"user_domain_name", "project_domain_name", "interface"}
            /\ \A k \in DOMAIN obtained : handed[k] = obtained[k]
            /\ \A k \in {"user_domain_name", "project_domain_name", "interface"} :
                  k \notin DOMAIN obtained => handed[k] = PromptDefault(k)
            /\ "region_name" \in DOMAIN handed <=> "region_name" \in DOMAIN obtained

\* C3 witness: openstack.connect was called for keyword arguments that gave
\* an empty user_domain_name and a region_name but no project_domain_name
\* and no interface.
C3_Witness ==
    /\ Places("connect") # {}
    /\ auth_method = "args"
    /\ "user_domain_name" \in DOMAIN obtained
    /\ obtained["user_domain_name"] = EmptyStr
    /\ connect_args["user_domain_name"] = EmptyStr
    /\ "region_name" \in DOMAIN obtained
    /\ "interface" \notin DOMAIN obtained
    /\ connect_args["interface"] = DEFAULT_INTERFACE
    /\ connect_args["project_domain_name"] = DEFAULT_DOMAIN

\* C4: under auto the environment is consulted first, then the three
\* default paths in their order, then the user: no path is looked at when
\* the environment record is valid; a path is loaded only if it exists;
\* the first file that gives a complete record is taken and no later path
\* is looked at; the user is prompted exactly when neither the environment
\* nor any of the three files gave a valid record.
C4_AutoOrder ==
    auth_method = "auto" =>
        /\ calls # <<>> => calls[1].op = "environ"
        /\ Places("environ") \subseteq {1}
        /\ (calls # <<>> /\ calls[1].ok) =>
              Places("exists") \cup Places("load") \cup Places("interactive") = {}
        /\ \A i, j \in Places("exists") :
              i < j => PathPlace(calls[i].path) < PathPlace(calls[j].path)
        /\ \A j \in Places("exists") :
              \A n \in 1..(PathPlace(calls[j].path) - 1) :
                  \E i \in Places("exists") :
                      i < j /\ calls[i].path = default_config_paths[n]
        /\ \A i \in Places("load") :
              /\ calls[i - 1] = Call("exists", calls[i].path, TRUE)
              /\ calls[i].ok <=>
                    (i < Len(calls) /\ calls[i + 1].op = "print_using")
              /\ calls[i].ok =>
                    \A j \in Places("exists") \cup Places("load")
                               \cup Places("interactive") : j <= i
        /\ \A i \in Places("exists") :
              calls[i].ok <=> (i < Len(calls) /\ calls[i + 1].op = "load"
                               /\ calls[i + 1].path = calls[i].path)
        /\ \A i \in Places("interactive") :
              \A j \in Places("environ") \cup Places("exists") \cup Places("load") :
                  j < i
        /\ (sdk_available /\ pc \notin {"start", "resolve", "auto_files", "auto_check"}) =>
              (Places("interactive") # {}
                  <=> /\ ~calls[1].ok
                      /\ Cardinality(Places("exists")) = Len(default_config_paths)
                      /\ \A i \in Places("load") : ~calls[i].ok)

\* C4 witness: the environment was not valid, the first path did not exist,
\* the second held a file that was not usable, the third held a complete
\* one, which was taken, and the user was not prompted.
C4_Witness ==
    /\ auth_method = "auto"
    /\ pc = "connect"
    /\ Len(calls) = 7
    /\ ~calls[1].ok
    /\ calls[2] = Call("exists", default_config_paths[1], FALSE)
    /\ calls[4] = Call("load", default_config_paths[2], FALSE)
    /\ calls[6] = Call("load", default_config_paths[3], TRUE)
    /\ calls[7].op = "print_using"
    /\ obtained["auth_url"] = <<"f">>

\* C5: under the config strategy, with no path setup_openstack_connection
\* fails with an error, and with a path for which load_config_file returns
\* None it fails with the "Failed to load configuration" error; in both
\* cases before any attempt to connect.
C5_ConfigFailsBeforeConnect ==
    auth_method = "config" =>
        /\ (config_file \in {"None", ""} /\ pc \notin {"start", "resolve"}) =>
              /\ pc = "raised"
              /\ result.kind \in {"ValueError", "ImportError"}
              /\ sdk_available =>
                    result = Raise("ValueError", "Config file path must be provided", <<>>)
              /\ calls = <<>>
        /\ (Places("load") # {} /\ file_config.none) =>
              /\ pc = "raised"
              /\ result = Raise("ValueError", "Failed to load configuration", <<>>)
              /\ Places("connect") = {}
              /\ connect_args = EmptyConfig

\* C5 witness: load_config_file was called for the path given and returned
\* None.
C5_Witness ==
    /\ auth_method = "config"
    /\ config_file = "custom.conf"
    /\ calls = <<Call("load", "custom.conf", FALSE)>>
    /\ file_config.none
    /\ pc = "raised"

\* C10: a connection is returned only after openstack.connect and then
\* conn.authorize both succeeded, in that order; when either raises, the
\* error is printed, the exception goes on to the caller and no connection
\* is returned.
C10_ConnectThenAuthorize ==
    /\ result.kind = "connection" =>
          /\ pc = "returned"
          /\ \E i \in Places("connect") : \E j \in Places("authorize") :
                i < j /\ calls[i].ok /\ calls[j].ok
    /\ pc = "returned" => result.kind = "connection"
    /\ \A j \in Places("authorize") :
          \E i \in Places("connect") : i < j /\ calls[i].ok
    /\ Cardinality(Places("connect")) <= 1 /\ Cardinality(Places("authorize")) <= 1
    /\ \A i \in Places("connect") \cup Places("authorize") :
          ~calls[i].ok =>
              /\ pc = "raised"
              /\ result.kind \in {"Exception", "KeyboardInterrupt"}
              /\ result.message = calls[i].op
              /\ result.kind = "Exception" =>
                    (i + 1 = Len(calls) /\ calls[i + 1].op = "print_error")

\* C10 witness: openstack.connect returned, conn.authorize raised, the
\* error was printed and the exception went on to the caller.
C10_Witness ==
    /\ pc = "raised"
    /\ result = Raise("Exception", "authorize", <<>>)
    /\ Len(calls) >= 3
    /\ calls[Len(calls) - 2] = Call("connect", "", TRUE)
    /\ calls[Len(calls) - 1] = Call("authorize", "", FALSE)
    /\ calls[Len(calls)] = Call("print_error", "", TRUE)

-----------------------------------------------------------------------------
(* Properties of the report builder *)

\* the operations of the session the report builder may call
ControlPlaneOps ==
    {"servers", "hypervisors", "get_project", "get_flavor", "get_image",
     "get_volume"}

\* C11: called with no connection, or with both passes disabled, the report
\* builder reports the error and returns: it raises nothing, calls no
\* operation of the control plane and opens neither output file.
C11_NothingToDoReturns ==
    (conn = "None" \/ (~export_instances /\ ~export_hypervisors)) =>
        /\ pc \in {"report", "report_returned"}
        /\ result = NoResult
        /\ out_files = NoFiles
        /\ \A i \in 1..Len(calls) : calls[i].op \notin ControlPlaneOps \cup {"open"}
        /\ pc = "report_returned" =>
              calls = <<Call(IF conn = "None" THEN "print_no_connection"
                             ELSE "print_no_export", "", TRUE)>>

\* C11 witness: a call with a connection to a control plane that holds
\* servers and hypervisors, both passes disabled, has returned.
C11_Witness ==
    /\ pc = "report_returned"
    /\ conn = "conn" /\ ~export_instances /\ ~export_hypervisors
    /\ cloud.servers # <<>> /\ cloud.hypervisors # <<>>
    /\ calls = <<Call("print_no_export", "", TRUE)>>

\* the flavor lookups of the hypervisor pass, in the order they were made
HypervisorPassLookups ==
    LET fetched == {i \in 1..Len(calls) : calls[i].op = "hypervisors"}
    IN  IF fetched = {} THEN <<>>
        ELSE LET from == CHOOSE i \in fetched : TRUE
             IN  SelectSeq(SubSeq(calls, from + 1, Len(calls)),
                           LAMBDA c : c.op = "get_flavor")

\* the instance is on the hypervisor and holds resources there
CountsOn(server, hypervisor) ==
    /\ server.hostname = hypervisor.name
    /\ server.status \in {"ACTIVE", "PAUSED", "SUSPENDED"}

RECURSIVE SumOver(_, _, _, _)
\* the sums of flavor vcpus and flavor ram over the fetched instances from
\* the k-th on that count on the hypervisor and have a flavor; with
\* lookups, only over those whose lookup (the next-th of the pass and the
\* following) returned a flavor
SumOver(hypervisor, k, next, lookups) ==
    IF k > Len(all_servers) THEN [vcpus |-> 0, ram |-> 0, next |-> next]
    ELSE LET server == all_servers[k]
             has == CountsOn(server, hypervisor) /\ server.flavor # "absent"
             rest == SumOver(hypervisor, k + 1,
                             IF has THEN next + 1 ELSE next, lookups)
             adds == has /\ (lookups = <<>> \/ lookups[next].ok)
         IN  [vcpus |-> (IF adds THEN Flavors[server.flavor].vcpus ELSE 0)
                            + rest.vcpus,
              ram |-> (IF adds THEN Flavors[server.flavor].ram ELSE 0)
                          + rest.ram,
              next |-> rest.next]

RECURSIVE RowsHoldSums(_, _, _)
\* the rows from the j-th on hold those sums
RowsHoldSums(j, next, lookups) ==
    IF j > Len(hypervisor_data) THEN TRUE
    ELSE LET sums == SumOver(cloud.hypervisors[j], 1, next, lookups)
         IN  /\ hypervisor_data[j].Allocated_VCPUs = sums.vcpus
             /\ hypervisor_data[j].Allocated_RAM = sums.ram
             /\ RowsHoldSums(j + 1, sums.next, lookups)

\* C12 as stated: in every hypervisor row, Allocated VCPUs and Allocated
\* RAM are the sums of flavor vcpus and flavor ram over exactly the fetched
\* instances whose hypervisor hostname is the hypervisor's name and whose
\* status is ACTIVE, PAUSED or SUSPENDED.
C12_AllocatedIsSumOverMatching ==
    RowsHoldSums(1, 1, <<>>)

\* C12 amended: in every hypervisor row, Allocated VCPUs and Allocated RAM
\* are the sums of flavor vcpus and flavor ram over exactly the fetched
\* instances whose hypervisor hostname is the hypervisor's name, whose
\* status is ACTIVE, PAUSED or SUSPENDED and whose flavor lookup in the
\* hypervisor pass returned a flavor; any other instance contributes
\* nothing.
C12_AllocatedIsSumOverResolved ==
    pc \in {"hypervisor_rows", "report_returned", "report_raised"} =>
        RowsHoldSums(1, 1, HypervisorPassLookups)

\* C12 witness: two active instances of the flavor with 2 vcpus and 4 MB
\* on the first host, both looked up, and a row for that host holding 4
\* and 8.
C12_Witness ==
    /\ pc = "report_returned"
    /\ Len(all_servers) = 2
    /\ \A k \in 1..2 : all_servers[k] = Server("ACTIVE", "h1", "f2", <<>>)
    /\ Len(hypervisor_data) = 2
    /\ hypervisor_data[2].Hostname = "h1"
    /\ hypervisor_data[2].Allocated_VCPUs = 4
    /\ hypervisor_data[2].Allocated_RAM = 8
    /\ hypervisor_data[1].Allocated_VCPUs = 0

\* C13: for a hypervisor whose capacity in a dimension (vcpus, memory,
\* local disk) is 0, every percentage and ratio of that dimension in its
\* row is 0, whatever the used and allocated figures are; the row is built,
\* no division by zero occurs.
C13_ZeroCapacityGivesZero ==
    pc = "hypervisor_row_built" =>
        LET hypervisor == cloud.hypervisors[1]
            row == hypervisor_data[1]
        IN  /\ hypervisor.vcpus = 0 =>
                  /\ row.Physical_CPU_Usage = 0
                  /\ row.Allocated_CPU = 0
                  /\ row.CPU_Overcommit_Ratio = 0
            /\ hypervisor.memory_size = 0 =>
                  /\ row.Physical_RAM_Usage = 0
                  /\ row.Allocated_RAM_Pct = 0
                  /\ row.Memory_Overcommit_Ratio = 0
            /\ hypervisor.local_disk_size = 0 => row.Disk_Usage = 0

\* C13 witness: the row of a hypervisor with no vcpus, no memory and no
\* disk, on which vcpus, memory and disk are used and allocated, is built.
C13_Witness ==
    /\ pc = "hypervisor_row_built"
    /\ cloud.hypervisors[1].vcpus = 0
    /\ cloud.hypervisors[1].memory_size = 0
    /\ cloud.hypervisors[1].local_disk_size = 0
    /\ cloud.hypervisors[1].vcpus_used > 0
    /\ cloud.hypervisors[1].memory_used > 0
    /\ cloud.hypervisors[1].local_disk_used > 0
    /\ hypervisor_data[1].Allocated_VCPUs > 0
    /\ hypervisor_data[1].Allocated_RAM > 0
    /\ hypervisor_data[1].CPU_Overcommit_Ratio = 0

\* "Yes" exactly when more is allocated than a capacity above 0 holds
FlagFor(allocated, capacity) ==
    IF capacity > 0 /\ allocated > capacity THEN "Yes" ELSE "No"

\* C14: in every hypervisor row "CPU Overcommitted" is "Yes" if and only if
\* the capacity in vcpus is above 0 and more vcpus are allocated than it
\* holds, and "No" otherwise (allocated equal to capacity and capacity 0
\* included); the same for "Memory Overcommitted" with the allocated RAM
\* and the memory capacity.
C14_FlagIffAllocatedExceedsCapacity ==
    pc = "hypervisor_row_built" =>
        LET hypervisor == cloud.hypervisors[1]
            row == hypervisor_data[1]
        IN  /\ row.CPU_Overcommitted =
                  FlagFor(row.Allocated_VCPUs, hypervisor.vcpus)
            /\ row.Memory_Overcommitted =
                  FlagFor(row.Allocated_RAM, hypervisor.memory_size)

\* C14 witness: a row in which more vcpus are allocated than the capacity
\* above 0 holds, flagged "Yes", and as much RAM as the capacity holds,
\* flagged "No".
C14_Witness ==
    /\ pc = "hypervisor_row_built"
    /\ cloud.hypervisors[1].vcpus > 0
    /\ hypervisor_data[1].Allocated_VCPUs > cloud.hypervisors[1].vcpus
    /\ hypervisor_data[1].CPU_Overcommitted = "Yes"
    /\ cloud.hypervisors[1].memory_size > 0
    /\ hypervisor_data[1].Allocated_RAM = cloud.hypervisors[1].memory_size
    /\ hypervisor_data[1].Memory_Overcommitted = "No"

\* the places in the log where the file was opened
OpensOf(filename) ==
    {i \in 1..Len(calls) : calls[i].op = "open" /\ calls[i].path = filename}

\* C15 as stated: when an enabled pass fetches zero instances (zero
\* hypervisors), the pass raises nothing, a "no data to export" notice is
\* logged for it, its output file is not opened and holds neither header
\* nor rows, and the run goes on with the remaining pass.
C15_EmptyPassIsNoticed ==
    /\ (/\ export_instances
        /\ cloud.servers = <<>>
        /\ Call("servers", "all_projects", TRUE) \in {calls[i] : i \in 1..Len(calls)})
           => /\ Places("print_no_instance_data") # {}
              /\ OpensOf(instance_filename) = {}
              /\ instance_filename \notin DOMAIN out_files
              /\ pc = "report_raised" => Places("hypervisors") # {}
              /\ (pc = "report_returned" /\ export_hypervisors)
                    => Places("hypervisors") # {}
    /\ (/\ export_hypervisors
        /\ cloud.hypervisors = <<>>
        /\ pc = "report_returned"
        /\ Call("hypervisors", "", TRUE) \in {calls[i] : i \in 1..Len(calls)})
           => /\ Places("print_no_hypervisor_data") # {}
              /\ OpensOf(hypervisor_filename) = {}
              /\ hypervisor_filename \notin DOMAIN out_files
              /\ result = NoResult

\* how many fetched instances count on the hypervisor
CountOn(hypervisor) ==
    Cardinality({k \in 1..Len(all_servers) : CountsOn(all_servers[k], hypervisor)})

\* C18: in the hypervisor pass a flavor lookup that fails for a matching
\* active instance skips only that instance's vcpus and ram: the pass does
\* not abort on it, the other matching instances still add to the sums,
\* the instance is still counted in "Active Instances", and a row is built
\* for that hypervisor and for every other one.
C18_FailedFlavorSkipsOneContribution ==
    /\ (/\ pc = "report_raised"
        /\ result.kind = "Exception"
        /\ Places("hypervisors") # {})
           => calls[Len(calls)].op \in {"hypervisors", "open"}
    /\ pc \in {"hypervisor_rows", "report_returned", "report_raised"} =>
          /\ RowsHoldSums(1, 1, HypervisorPassLookups)
          /\ \A j \in 1..Len(hypervisor_data) :
                hypervisor_data[j].Active_Instances = CountOn(cloud.hypervisors[j])
    /\ (/\ pc = "report_returned"
        /\ Call("hypervisors", "", TRUE) \in {calls[i] : i \in 1..Len(calls)})
           => /\ Len(hypervisor_data) = Len(cloud.hypervisors)
              /\ \A j \in 1..Len(hypervisor_data) :
                    hypervisor_data[j].Hostname = cloud.hypervisors[j].name

\* C18 witness: two active instances on the first host, of the two
\* flavors; the lookup of the first one failed, the second one was looked
\* up; the pass has written rows for both hosts, and the row of the first
\* host counts two instances and holds the figures of the second flavor.
C18_Witness ==
    /\ pc = "report_returned"
    /\ ~export_instances
    /\ all_servers = <<Server("ACTIVE", "h1", "f1", <<>>),
                       Server("ACTIVE", "h1", "f2", <<>>)>>
    /\ HypervisorPassLookups = <<Call("get_flavor", "f1", FALSE),
                                 Call("get_flavor", "f2", TRUE)>>
    /\ Len(hypervisor_data) = 2
    /\ hypervisor_data[1].Hostname = "h1"
    /\ hypervisor_data[1].Active_Instances = 2
    /\ hypervisor_data[1].Allocated_VCPUs = 2
    /\ hypervisor_data[1].Allocated_RAM = 4
    /\ hypervisor_filename \in DOMAIN out_files

RECURSIVE SplitOn(_, _)
\* the pieces of a joined field between the separators
SplitOn(field, separator) ==
    LET at == {i \in 1..Len(field) : field[i] = separator}
    IN  IF at = {} THEN <<field>>
        ELSE LET first == CHOOSE i \in at : \A j \in at : i <= j
             IN  <<SubSeq(field, 1, first - 1)>>
                     \o SplitOn(SubSeq(field, first + 1, Len(field)), separator)

\* the entries of an "Attached Volumes" field
EntriesOf(field) == IF field = <<>> THEN <<>> ELSE SplitOn(field, "; ")

\* the volume lookups, in the order they were made
VolumeLookups == SelectSeq(calls, LAMBDA c : c.op = "get_volume")

\* the entry describes the volume as the control plane holds it
DescribesVolume(entry, id) ==
    entry = <<"ID:", id, ", Name:", Volumes[id].name,
              ", Size:", ToString(Volumes[id].size), "GB">>

\* the entry is an error placeholder that carries the id of the volume
IsPlaceholderFor(entry, id) ==
    /\ Len(entry) >= 3
    /\ entry[1] = "ID:" /\ entry[2] = id
    /\ entry[3] = ", Details: Error - "

RECURSIVE RowsHoldVolumes(_, _)
\* the rows from the i-th on have one entry per attached volume, in
\* attachment order: the description where the lookup (the next-th and the
\* following) returned, a placeholder where it failed
RowsHoldVolumes(i, next) ==
    IF i > Len(instance_data) THEN TRUE
    ELSE LET attached == all_servers[i].attached_volumes
             entries == EntriesOf(instance_data[i].Attached_Volumes)
         IN  /\ Len(entries) = Len(attached)
             /\ \A k \in 1..Len(attached) :
                   LET lookup == VolumeLookups[next + k - 1]
                   IN  /\ lookup.path = attached[k]
                       /\ IF lookup.ok
                          THEN DescribesVolume(entries[k], attached[k])
                          ELSE IsPlaceholderFor(entries[k], attached[k])
             /\ RowsHoldVolumes(i + 1, next + Len(attached))

\* C19: in the instance pass a volume lookup that fails leaves an error
\* placeholder with the volume's id for that volume only: the other
\* volumes of the instance keep their description, the row of the instance
\* is still built (the pass does not end on that failure), and "Attached
\* Volumes" has exactly one entry per attached volume, in attachment order.
C19_FailedVolumeLeavesPlaceholder ==
    /\ RowsHoldVolumes(1, 1)
    /\ (pc = "report_raised" /\ result.kind = "Exception")
          => calls[Len(calls)].op # "get_volume"
    /\ instance_filename \in DOMAIN out_files =>
          /\ Len(instance_data) = Len(all_servers)
          /\ out_files[instance_filename].rows = instance_data

\* C19 witness: an instance with two volumes attached, the second before
\* the first; the lookup of the second failed, the first was looked up; the
\* row holds the placeholder, then the description, and is in the file.
C19_Witness ==
    /\ instance_filename \in DOMAIN out_files
    /\ Len(all_servers) = 1
    /\ all_servers[1].attached_volumes = <<"v2", "v1">>
    /\ VolumeLookups = <<Call("get_volume", "v2", FALSE),
                         Call("get_volume", "v1", TRUE)>>
    /\ out_files[instance_filename].rows[1].Attached_Volumes =
          <<"ID:", "v2", ", Details: Error - ", "e", "; ",
            "ID:", "v1", ", Name:", "data", ", Size:", "1", "GB">>

\* C20 as stated: a flavor lookup that fails is contained to the one field
\* in either pass: neither pass ends on it, and in the instance pass a row
\* is still built for that instance, with "N/A" in the fields taken from
\* the flavor, and for every other instance, and the instance report is
\* still written.
C20_FailedFlavorIsContained ==
    /\ (pc = "report_raised" /\ result.kind = "Exception")
          => calls[Len(calls)].op # "get_flavor"
    /\ \A i \in 1..Len(calls) :
          (calls[i].op = "get_flavor" /\ ~calls[i].ok /\ export_instances
              /\ Places("hypervisors") = {} /\ pc = "hypervisor_pass")
             => /\ Len(instance_data) = Len(all_servers)
                /\ instance_filename \in DOMAIN out_files
                /\ \E r \in 1..Len(instance_data) :
                      /\ all_servers[r].flavor = calls[i].path
                      /\ instance_data[r].Flavor_Name = "N/A"
                      /\ instance_data[r].VCPUs = "N/A"

\* the row of the one server has been built
RowBuilt == pc = "instance_row_built"

\* C21: for every instance row, 'Uptime (s)' carries a value if and only if
\* the instance's status is ACTIVE and a non-empty launch timestamp is
\* present; for every other status (PAUSED and SUSPENDED included) or a
\* missing or empty launch timestamp it is absent.
C21_UptimeIffActiveAndLaunched ==
    \A i \in 1..Len(instance_data) :
        (instance_data[i].Uptime # "None") <=>
            /\ all_servers[i].status = "ACTIVE"
            /\ all_servers[i].launched_at \notin {"absent", ""}

\* the row of an active instance with a launch timestamp holds an uptime
C21_Witness ==
    /\ RowBuilt
    /\ all_servers[1].status = "ACTIVE"
    /\ all_servers[1].launched_at = "2023-01-01T12:00:00Z"
    /\ instance_data[1].Uptime = "seconds"

\* C22 as stated: 'Public IP' is the address portion of the first joined
\* network entry if that entry's type marker contains 'floating', and 'N/A'
\* otherwise, whatever the network name and address of that entry are and
\* whatever the later entries are.
C22_PublicIpFollowsTypeMarker ==
    \A i \in 1..Len(instance_data) :
        LET addresses == all_servers[i].addresses
        IN  instance_data[i].Public_IP =
                IF addresses # <<>> /\ Contains(addresses[1].type, "floating")
                THEN addresses[1].addr
                ELSE <<"N/A">>

\* the instance pass is disabled and the hypervisor pass enabled
HypervisorOnly == conn = "conn" /\ ~export_instances /\ export_hypervisors

\* C23: when the instance pass is disabled and the hypervisor pass is
\* enabled, the instance collection is still fetched exactly once before the
\* hypervisors are processed, no project, image or volume lookup is made,
\* the instance output file is never opened, and the allocation figures of
\* the hypervisor rows are what they are with both passes enabled: the sums
\* over all the instances the control plane lists.
C23_HypervisorOnlyStillFetchesServers ==
    /\ HypervisorOnly =>
        /\ Cardinality(Places("servers")) <= 1
        /\ \A h \in Places("hypervisors") :
               \E s \in Places("servers") : s < h /\ calls[s] = ServersCall("ok")
        /\ Places("get_project") \cup Places("get_image")
               \cup Places("get_volume") = {}
        /\ OpensOf(instance_filename) = {}
        /\ instance_filename \notin DOMAIN out_files
        /\ instance_data = <<>>
    /\ (conn = "conn" /\ export_hypervisors /\ Places("hypervisors") # {}) =>
        /\ all_servers = cloud.servers
        /\ RowsHoldSums(1, 1, HypervisorPassLookups)

\* the hypervisor pass alone has written a row that holds what two
\* instances were allocated
C23_Witness ==
    /\ HypervisorOnly
    /\ pc = "report_returned"
    /\ Len(cloud.servers) = 2
    /\ hypervisor_filename \in DOMAIN out_files
    /\ out_files[hypervisor_filename].rows[1].Allocated_VCPUs = 2

\* the open was made by the instance pass: no hypervisors were listed before
OpenedByInstancePass(i) == \A h \in Places("hypervisors") : i < h

\* the open was made by the hypervisor pass: after the hypervisors were
\* listed
OpenedByHypervisorPass(i) == \E h \in Places("hypervisors") : h < i

\* the file holds a header taken from the keys of the first row and one
\* line per instance the control plane lists, in that order
HoldsInstances(written) ==
    /\ Len(written.rows) = Len(cloud.servers)
    /\ written.rows # <<>>
    /\ written.header = DOMAIN written.rows[1]
    /\ \A i \in 1..Len(written.rows) :
        /\ "ID" \in DOMAIN written.rows[i]
        /\ written.rows[i].ID = ServerId(i)
        /\ written.rows[i].Status = cloud.servers[i].status

\* the same for the hypervisors
HoldsHypervisors(written) ==
    /\ Len(written.rows) = Len(cloud.hypervisors)
    /\ written.rows # <<>>
    /\ written.header = DOMAIN written.rows[1]
    /\ \A j \in 1..Len(written.rows) :
        /\ "Hostname" \in DOMAIN written.rows[j]
        /\ written.rows[j].Hostname = cloud.hypervisors[j].name

\* each file is opened at most once, by its own pass, and written whole
FilesWrittenOnce ==
    /\ Cardinality(OpensOf(instance_filename)) <= 1
    /\ Cardinality(OpensOf(hypervisor_filename)) <= 1
    /\ \A i \in OpensOf(instance_filename) : OpenedByInstancePass(i)
    /\ \A i \in OpensOf(hypervisor_filename) : OpenedByHypervisorPass(i)
    /\ instance_filename \in DOMAIN out_files =>
           HoldsInstances(out_files[instance_filename])
    /\ hypervisor_filename \in DOMAIN out_files =>
           HoldsHypervisors(out_files[hypervisor_filename])

BuilderLocalOps ==
    {"open", "print_no_connection", "print_no_export",
     "print_no_instance_data", "print_exported", "print_no_hypervisor_data",
     "print_warning"}

\* the operations of the session the run has called
SessionOpsCalled ==
    {calls[i].op : i \in 1..Len(calls)} \ BuilderLocalOps

\* the report builder only reads: it lists the instances of all projects,
\* lists the hypervisors and gets projects, flavors, images and volumes by id
OnlyReads ==
    /\ SessionOpsCalled \subseteq ControlPlaneOps
    /\ \A i \in Places("servers") : calls[i].path = "all_projects"

\* C26 as stated: in every run the report builder calls on the session only
\* the five read operations (list instances with all-projects scope, list
\* hypervisors, get project / flavor / image / volume by id) and none that
\* creates, changes or deletes infrastructure state.
C26_OnlyFiveReadOperations ==
    OnlyReads /\ Cardinality(SessionOpsCalled) <= 5

\* C26, counted: in every run, for every combination of toggles and every
\* outcome of the lookups, the report builder calls on the session only the
\* six read operations (list instances with all-projects scope, list
\* hypervisors, get project, get flavor, get image, get volume by id) and
\* none that creates, changes or deletes infrastructure state.
C26_OnlySixReadOperations ==
    OnlyReads /\ Cardinality(SessionOpsCalled) <= 6

\* a run that has called all six
C26_Witness ==
    /\ pc = "report_returned"
    /\ SessionOpsCalled = ControlPlaneOps
    /\ Call("servers", "all_projects", TRUE) \in {calls[i] : i \in 1..Len(calls)}

\* both passes are enabled on a connection
BothPasses == conn = "conn" /\ export_instances /\ export_hypervisors

\* the instance report is on disk, whole, and was written before place h of
\* the calls
InstanceReportBefore(h) ==
    /\ Len(instance_data) = Len(cloud.servers)
    /\ \E o \in OpensOf(instance_filename) : o < h /\ calls[o].ok
    /\ instance_filename \in DOMAIN out_files
    /\ out_files[instance_filename].rows = instance_data
    /\ \A i \in 1..Len(cloud.servers) : instance_data[i].ID = ServerId(i)

\* the error left the loop over the instances
RaisedInInstanceRow ==
    /\ pc = "report_raised"
    /\ result.message \in {ServerId(i) : i \in 1..Len(all_servers)}

\* C28: with both passes enabled, the instance pass runs to completion (all
\* rows built and the instance file written) before the hypervisor list is
\* fetched; hence an error raised during the hypervisor pass leaves the
\* complete instance report on disk, and an error raised while building an
\* instance row means neither output file is opened.
C28_InstancePassCompletesFirst ==
    BothPasses =>
        /\ \A h \in Places("hypervisors") :
               cloud.servers # <<>> => InstanceReportBefore(h)
        /\ (pc = "report_raised" /\ Places("hypervisors") # {}
                /\ cloud.servers # <<>>) =>
               InstanceReportBefore(Len(calls) + 1)
        /\ RaisedInInstanceRow =>
            /\ Places("open") = {}
            /\ Places("hypervisors") = {}
            /\ out_files = NoFiles

\* the hypervisor pass was interrupted after the report of two instances
\* was written
C28_Witness ==
    /\ BothPasses
    /\ pc = "report_raised"
    /\ result.message = "h1"
    /\ Len(cloud.servers) = 2
    /\ instance_filename \in DOMAIN out_files
    /\ Len(out_files[instance_filename].rows) = 2
    /\ hypervisor_filename \notin DOMAIN out_files

-----------------------------------------------------------------------------
(* Properties of the command *)

\* what escapes as an error, and the interruption by the user
ErrorKinds == {"ImportError", "ValueError", "Exception"}

\* C16: the exit status is not 0 whenever an error has escaped the
\* credential resolution, the connection or a report pass, and whenever the
\* user has interrupted the run; it is 0 whenever the run completes, a pass
\* that produces no row included.
C16_ExitStatusTellsFailure ==
    /\ pc # "exited" => exit_status = "running"
    /\ pc = "exited" =>
          /\ exit_status \in {0, 1}
          /\ result.kind \in ErrorKinds \cup {"KeyboardInterrupt"}
                => exit_status # 0
          /\ result.kind = "connection" =>
                /\ exit_status = 0
                /\ Places("print_error_main") \cup Places("print_cancelled") = {}

\* C16 witness: the command has exited with 0 after an instance pass that
\* fetched no instance and a hypervisor pass that wrote its file.
C16_Witness ==
    /\ pc = "exited"
    /\ exit_status = 0
    /\ export_instances /\ export_hypervisors
    /\ cloud.servers = <<>>
    /\ Places("print_no_instance_data") # {}
    /\ hypervisor_filename \in DOMAIN out_files

\* C17 as stated: whenever a shortcut is given, the toggles passed to the
\* report builder have exactly one pass on: --instances-only gives
\* instances on and hypervisors off, --hypervisors-only gives hypervisors
\* on and instances off, whatever the --no-export-* flags are; and the two
\* shortcuts are never accepted together.
C17_ShortcutsForceOnePass ==
    pc = "report" =>
        /\ args.instances_only => (export_instances /\ ~export_hypervisors)
        /\ args.hypervisors_only => (export_hypervisors /\ ~export_instances)
        /\ ~(args.instances_only /\ args.hypervisors_only)

\* the calls of the credential resolution
ResolutionOps == {"environ", "exists", "load", "interactive"}

\* C25: in every run of the command the stages happen in the order
\* credential resolution, connection and authorization, report building,
\* export: no instance or hypervisor fetch and no lookup is issued before
\* authorization has succeeded, and no output file is opened before the
\* fetch of its pass has completed.
C25_StagesInOrder ==
    \A i \in 1..Len(calls) :
        /\ calls[i].op \in ResolutionOps =>
               \A c \in Places("connect") \cup Places("authorize") : i < c
        /\ calls[i].op = "authorize" =>
               \E c \in Places("connect") : c < i /\ calls[c].ok
        /\ calls[i].op \in ControlPlaneOps \cup {"open"} =>
               \E a \in Places("authorize") : a < i /\ calls[a].ok
        /\ calls[i].op \in {"get_project", "get_image", "get_volume", "get_flavor"} =>
               \E s \in Places("servers") : s < i /\ calls[s].ok
        /\ (calls[i].op = "open" /\ calls[i].path = instance_filename) =>
               \E s \in Places("servers") : s < i /\ calls[s].ok
        /\ (calls[i].op = "open" /\ calls[i].path = hypervisor_filename) =>
               \E h \in Places("hypervisors") : h < i /\ calls[h].ok

\* a run that went through every stage: a file accepted, the connection
\* authorized, both lists fetched and both files written
C25_Witness ==
    /\ pc = "exited"
    /\ exit_status = 0
    /\ Places("load") # {}
    /\ Places("authorize") # {}
    /\ Places("get_volume") # {}
    /\ Cardinality(Places("open")) = 2
    /\ DOMAIN out_files = {instance_filename, hypervisor_filename}

\* the marks of the sources: a value of the environment is "e", one of a
\* file "f", one typed at the prompts "a"
SourceMarks == {"e", "f", "a"}

\* the sources the values of a record come from (a default is none of the
\* marks)
MarksOf(cfg) ==
    {cfg[k][1] : k \in {key \in DOMAIN cfg : Len(cfg[key]) = 1}}
        \cap SourceMarks

\* the records an accepted file can give
AcceptedRecords == {f.config : f \in {o \in PathOutcomes : o.accepted}}

\* the record is what one source gave, whole
FromOneSource(cfg) ==
    IF Places("interactive") # {}
    THEN cfg \in InteractiveRecords /\ MarksOf(cfg) \subseteq {"a"}
    ELSE IF Places("print_using") # {}
    THEN cfg \in AcceptedRecords /\ MarksOf(cfg) \subseteq {"f"}
    ELSE cfg \in EnvironmentRecords /\ MarksOf(cfg) \subseteq {"e"}

\* C27: under the auto strategy the record that is validated and used comes
\* entirely from one source, never from a merge: the fields of a partial
\* environment record are dropped when a file is accepted or the prompts
\* take over, and the fields of a file that failed validation never appear.
C27_AutoRecordFromOneSource ==
    (auth_method = "auto" /\ sdk_available) =>
        /\ pc = "validate" => FromOneSource(auth_config)
        /\ pc \in {"connect", "authorize", "returned", "raised"} =>
            /\ FromOneSource(obtained)
            /\ MarksOf(auth_config) = MarksOf(obtained)
            /\ \A k \in DOMAIN obtained : auth_config[k] = obtained[k]

\* the environment was incomplete, a first file failed validation and a
\* later one was accepted: the record used is the file's
C27_Witness ==
    /\ auth_method = "auto"
    /\ pc = "returned"
    /\ calls[1] = Call("environ", "", FALSE)
    /\ Call("load", default_config_paths[1], FALSE) \in {calls[i] : i \in 1..Len(calls)}
    /\ Places("print_using") # {}
    /\ Places("interactive") = {}
    /\ MarksOf(obtained) = {"f"}
    /\ "user_domain_name" \notin DOMAIN obtained

=============================================================================
